---- MODULE Spec2Model ----
(***************************************************************************)
(* A model of the parent-side controllers of allow2automate-web-browsers:  *)
(*   BrowserTimeTracker  (src/src/parent/BrowserTimeTracker.js)            *)
(*   QuotaEnforcer       (src/src/parent/QuotaEnforcer.js)                 *)
(* and of the part of the plugin that wires them (src/unnamed/part_001).   *)
(*                                                                         *)
(* Time is Date.now() in milliseconds.  An async method is split at each   *)
(* await of the authority (allow2Client.checkActivity): the part before    *)
(* the await is one action, the part after it another, and the call in     *)
(* flight is a record in trackerCalls / enforcerCalls.  Timer callbacks    *)
(* (setInterval) may fire at any instant at which their timer is live.     *)
(* The allow2Client is present (the plugin constructs both controllers     *)
(* with it).  The browsers payload of a session and the timestamp and     *)
(* duration payloads of the events are carried nowhere in the control flow *)
(* and are left out; calls in flight and live timers are bags, since two   *)
(* of them may hold the same values.                                       *)
(***************************************************************************)
EXTENDS Integers, Sequences, FiniteSets, Bags, TLC

VARIABLES
    now,              \* Date.now(), ms
    stateAgents,      \* state.agents[a].childId
    stateChildren,    \* state.children[c]: {usageToday, lastReset} or NoChild
    activeSessions,   \* BrowserTimeTracker.activeSessions: agentId -> session
    logIntervals,     \* BrowserTimeTracker.logIntervals: agentId -> timer handle
    timers,           \* the live setInterval timers of the tracker (a bag)
    trackerCalls,     \* tracker methods awaiting allow2Client.checkActivity (a bag)
    unsent,           \* per agent: seconds credited to its sessions minus seconds
                      \* handed to the authority in usage-logging calls
    warningStates,    \* QuotaEnforcer.warningStates: childId -> the keys set in
                      \* the child's warning state, or NoEntry
    quotaCache,       \* QuotaEnforcer.quotaCache: childId:internet -> entry
    enforcerCalls,    \* checkQuota calls awaiting allow2Client.checkActivity (a bag)
    warnCount,        \* per child and threshold: show-warning events emitted
    pendingShutdowns, \* AgentBrowserManager.pendingShutdowns: agentId -> schedule
    managerCalls,     \* agentService.triggerAction calls awaited (a bag)
    violations,       \* state.violations, newest first: the agents killed
    usage,            \* BrowserQuotaManager.usage of the session's child, in each
                      \* of two runs of the manager
    usageEvents,      \* the quota events the manager emitted so far, per run
    stateChange,      \* the stateChange listener's loop over the child's agents
    customRules,      \* WebsiteClassifier.customRules: domain -> category
    cache,            \* WebsiteClassifier.cache, in insertion order
    classifierOps,    \* the calls the classifier has served
    factory,          \* DetectorFactory: mode, activeDetector, its two detectors
    processDetector,  \* the factory's ProcessLevelDetector, or NoDetector
    extensionDetector,\* the factory's ExtensionDetector, or NoDetector
    lastEvent,        \* per PID: the last of browser-started and browser-stopped
                      \* the process detector emitted for it
    lastOp,           \* the handler that ran last, with its inputs and locals
    emitted           \* the events that handler emitted, in order

vars == <<now, stateAgents, stateChildren, activeSessions, logIntervals, timers,
          trackerCalls, unsent, warningStates, quotaCache,
          enforcerCalls, warnCount, pendingShutdowns, managerCalls, violations,
          usage, usageEvents, stateChange, customRules, cache, classifierOps,
          factory, processDetector, extensionDetector, lastEvent, lastOp, emitted>>

trackerVars == <<activeSessions, logIntervals, timers, trackerCalls, unsent>>
enforcerVars == <<warningStates, quotaCache, enforcerCalls, warnCount>>
managerVars == <<pendingShutdowns, managerCalls, violations>>
quotaManagerVars == <<usage, usageEvents>>
classifierVars == <<customRules, cache, classifierOps>>
detectorVars == <<factory, processDetector, extensionDetector, lastEvent>>
agentSideVars == <<classifierVars, detectorVars>>
otherVars == <<managerVars, quotaManagerVars, stateChange, agentSideVars>>

----------------------------------------------------------------------------
(* Bounds of the model *)

\* the tracker's clock runs to this many steps of TrackerSteps
MaxTrackerTicks == 2
\* the enforcer's clock takes this many steps: of EnforcerSteps, or to midnight
MaxEnforcerTicks == 2
\* tracker calls that may await the authority at once
MaxTrackerCalls == 2
\* checkQuota calls that may await the authority at once
MaxEnforcerCalls == 2
\* the clock advances by one of these, ms
TrackerSteps == {500}
EnforcerSteps == {2500}

Agents == {"a1", "a2"}
Children == {"c1", "c2"}

(* Program constants *)
MsPerSecond == 1000
CacheTTL == 5000
MsPerDay == 86400000
SecondsPerMinute == 60

NoSession == [none |-> "session"]
NoTimer == [none |-> "timer"]
NoChild == [none |-> "child"]
NoEntry == [none |-> "entry"]
NoShutdown == [none |-> "shutdown"]
NoUsage == [none |-> "usage"]
NoStateChange == [none |-> "stateChange"]
NoOp == [op |-> "init"]

\* the two runs compared: the same manager, fed different local activity
Runs == {1, 2}

Max(S) == CHOOSE x \in S : \A y \in S : y <= x
Min(S) == CHOOSE x \in S : \A y \in S : x <= y

----------------------------------------------------------------------------
(* BrowserTimeTracker *)

\* updateChildUsage: the children table after adding `seconds` to childId
ChildUsageAfter(ch, childId, seconds) ==
    LET base == IF ch[childId] = NoChild
                THEN [usageToday |-> 0, lastReset |-> now]
                ELSE ch[childId]
    IN [ch EXCEPT ![childId] = [base EXCEPT !.usageToday = base.usageToday + seconds]]

\* the usage-recorded event updateChildUsage emits
UsageRecorded(childId, seconds) ==
    [type |-> "usage-recorded", childId |-> childId, duration |-> seconds]

\* stopLoggingInterval: the live timers after clearInterval of the agent's handle
TimersAfterStop(agentId) ==
    IF logIntervals[agentId] # NoTimer
    THEN timers (-) SetToBag({logIntervals[agentId]})
    ELSE timers

LogIntervalsAfterStop(agentId) == [logIntervals EXCEPT ![agentId] = NoTimer]

\* recordActivity, existing session: accumulate the elapsed whole seconds
RecordActivityUpdate(agentId, childId) ==
    LET s == activeSessions[agentId]
        elapsed == now - s.lastUpdate
        secs == elapsed \div MsPerSecond
    IN /\ activeSessions' = [activeSessions EXCEPT ![agentId] =
              [s EXCEPT !.lastUpdate = now,
                        !.accumulatedSeconds = s.accumulatedSeconds + secs]]
       /\ stateChildren' = ChildUsageAfter(stateChildren, childId, secs)
       /\ unsent' = [unsent EXCEPT ![agentId] = @ + secs]
       /\ emitted' = <<UsageRecorded(childId, secs)>>
       /\ UNCHANGED <<logIntervals, timers>>

\* recordActivity, no session: open one, start its flush timer, emit session-started
RecordActivityOpen(agentId, childId) ==
    LET interval == [agentId |-> agentId, childId |-> childId]
    IN /\ activeSessions' = [activeSessions EXCEPT ![agentId] =
              [childId |-> childId, startTime |-> now, lastUpdate |-> now,
               accumulatedSeconds |-> 0, logged |-> FALSE]]
       /\ timers' = TimersAfterStop(agentId) (+) SetToBag({interval})
       /\ logIntervals' = [logIntervals EXCEPT ![agentId] = interval]
       /\ emitted' = <<[type |-> "session-started", agentId |-> agentId,
                        childId |-> childId]>>
       /\ UNCHANGED <<stateChildren, unsent>>

\* recordActivity without its test for an existing session
RecordActivityReopens(agentId, childId) ==
    /\ RecordActivityOpen(agentId, childId)
    /\ lastOp' = [op |-> "recordActivity", agentId |-> agentId,
                  existing |-> activeSessions[agentId] # NoSession]
    /\ UNCHANGED <<now, stateAgents, trackerCalls, enforcerVars, otherVars>>

RecordActivity(agentId, childId) ==
    /\ IF activeSessions[agentId] # NoSession
       THEN RecordActivityUpdate(agentId, childId)
       ELSE RecordActivityOpen(agentId, childId)
    /\ lastOp' = [op |-> "recordActivity", agentId |-> agentId,
                  existing |-> activeSessions[agentId] # NoSession]
    /\ UNCHANGED <<now, stateAgents, trackerCalls, enforcerVars, otherVars>>

\* the rest of endSession without its stopLoggingInterval
EndSessionFinishKeepsInterval(agentId, childId, elapsedSecs, logEvents) ==
    /\ stateChildren' = ChildUsageAfter(stateChildren, childId, elapsedSecs)
    /\ UNCHANGED <<timers, logIntervals>>
    /\ activeSessions' = [activeSessions EXCEPT ![agentId] = NoSession]
    /\ emitted' = logEvents \o
          <<UsageRecorded(childId, elapsedSecs),
            [type |-> "session-ended", agentId |-> agentId, childId |-> childId]>>

\* The rest of endSession, after the usage-logging call (or with nothing to log):
\* updateChildUsage, stopLoggingInterval, delete the session, emit session-ended
EndSessionFinish(agentId, childId, elapsedSecs, logEvents) ==
    /\ stateChildren' = ChildUsageAfter(stateChildren, childId, elapsedSecs)
    /\ timers' = TimersAfterStop(agentId)
    /\ logIntervals' = LogIntervalsAfterStop(agentId)
    /\ activeSessions' = [activeSessions EXCEPT ![agentId] = NoSession]
    /\ emitted' = logEvents \o
          <<UsageRecorded(childId, elapsedSecs),
            [type |-> "session-ended", agentId |-> agentId, childId |-> childId]>>

\* endSession up to its await: no session is a no-op; otherwise the final totals
\* are computed and, when positive, the usage-logging call is made and awaited
EndSession(agentId, childId) ==
    LET s == activeSessions[agentId]
        elapsed == now - s.lastUpdate
        elapsedSecs == elapsed \div MsPerSecond
        totalSeconds == s.accumulatedSeconds + elapsedSecs
    IN /\ lastOp' = [op |-> "endSession", agentId |-> agentId]
       /\ IF s = NoSession
          THEN /\ emitted' = <<>>
               /\ UNCHANGED <<stateChildren, trackerVars>>
          ELSE /\ IF totalSeconds > 0
                  THEN /\ BagCardinality(trackerCalls) < MaxTrackerCalls
                       /\ trackerCalls' = trackerCalls (+) SetToBag(
                             {[kind |-> "endSession", agentId |-> agentId,
                               childId |-> childId, seconds |-> totalSeconds,
                               log_usage |-> TRUE, elapsedSecs |-> elapsedSecs]})
                       /\ unsent' = [unsent EXCEPT ![agentId] = @ + elapsedSecs - totalSeconds]
                       /\ emitted' = <<>>
                       /\ UNCHANGED <<stateChildren, activeSessions, logIntervals, timers>>
                  ELSE /\ EndSessionFinish(agentId, childId, elapsedSecs, <<>>)
                       /\ UNCHANGED <<trackerCalls, unsent>>
       /\ UNCHANGED <<now, stateAgents, enforcerVars, otherVars>>

\* endAllSessions without its test for an open session
EndAllSessionsUnguarded(agentId) ==
    IF activeSessions[agentId] # NoSession
    THEN EndSession(agentId, activeSessions[agentId].childId)
    ELSE /\ lastOp' = [op |-> "endAllSessions", agentId |-> agentId]
         /\ emitted' = <<[type |-> "session-ended", agentId |-> agentId,
                          childId |-> stateAgents[agentId]]>>
         /\ UNCHANGED <<now, stateAgents, stateChildren, trackerVars, enforcerVars, otherVars>>

\* endAllSessions: endSession with the open session's own child
EndAllSessions(agentId) ==
    IF activeSessions[agentId] # NoSession
    THEN EndSession(agentId, activeSessions[agentId].childId)
    ELSE /\ lastOp' = [op |-> "endAllSessions", agentId |-> agentId]
         /\ emitted' = <<>>
         /\ UNCHANGED <<now, stateAgents, stateChildren, trackerVars, enforcerVars, otherVars>>

\* the flush callback without its reset of the accumulated seconds
FlushTickKeepsAccumulated(t) ==
    LET s == activeSessions[t.agentId]
    IN /\ lastOp' = [op |-> "flushTick", agentId |-> t.agentId]
       /\ emitted' = <<>>
       /\ IF s = NoSession \/ s.accumulatedSeconds = 0
          THEN UNCHANGED <<trackerVars>>
          ELSE /\ BagCardinality(trackerCalls) < MaxTrackerCalls
               /\ activeSessions' = [activeSessions EXCEPT ![t.agentId] =
                      [s EXCEPT !.logged = TRUE]]
               /\ trackerCalls' = trackerCalls (+) SetToBag(
                      {[kind |-> "flush", agentId |-> t.agentId,
                        childId |-> t.childId, seconds |-> s.accumulatedSeconds,
                        log_usage |-> TRUE]})
               /\ unsent' = [unsent EXCEPT ![t.agentId] = @ - s.accumulatedSeconds]
               /\ UNCHANGED <<logIntervals, timers>>
       /\ UNCHANGED <<now, stateAgents, stateChildren, enforcerVars, otherVars>>

\* the setInterval callback of startLoggingInterval, up to its await
FlushTick(t) ==
    LET s == activeSessions[t.agentId]
    IN /\ lastOp' = [op |-> "flushTick", agentId |-> t.agentId]
       /\ emitted' = <<>>
       /\ IF s = NoSession \/ s.accumulatedSeconds = 0
          THEN UNCHANGED <<trackerVars>>
          ELSE /\ BagCardinality(trackerCalls) < MaxTrackerCalls
               /\ activeSessions' = [activeSessions EXCEPT ![t.agentId] =
                      [s EXCEPT !.accumulatedSeconds = 0, !.logged = TRUE]]
               /\ trackerCalls' = trackerCalls (+) SetToBag(
                      {[kind |-> "flush", agentId |-> t.agentId,
                        childId |-> t.childId, seconds |-> s.accumulatedSeconds,
                        log_usage |-> TRUE]})
               /\ unsent' = [unsent EXCEPT ![t.agentId] = @ - s.accumulatedSeconds]
               /\ UNCHANGED <<logIntervals, timers>>
       /\ UNCHANGED <<now, stateAgents, stateChildren, enforcerVars, otherVars>>

\* logUsageToAllow2 after its await: usage-logged on success, nothing on a throw
UsageLogged(call, ok) ==
    IF ok
    THEN <<[type |-> "usage-logged", childId |-> call.childId, duration |-> call.seconds]>>
    ELSE <<>>

\* the authority answers (or fails) a usage-logging call; its caller resumes
LogUsageReturns(call, ok) ==
    /\ lastOp' = [op |-> "logUsageReturns", agentId |-> call.agentId, kind |-> call.kind]
    /\ trackerCalls' = trackerCalls (-) SetToBag({call})
    /\ IF call.kind = "endSession"
       THEN EndSessionFinish(call.agentId, call.childId, call.elapsedSecs,
                             UsageLogged(call, ok))
       ELSE /\ emitted' = UsageLogged(call, ok)
            /\ UNCHANGED <<stateChildren, activeSessions, logIntervals, timers>>
    /\ UNCHANGED <<now, stateAgents, unsent, enforcerVars, otherVars>>

\* cleanup: every flush timer is cleared and the sessions are dropped
Cleanup ==
    /\ timers' = EmptyBag
    /\ logIntervals' = [a \in Agents |-> NoTimer]
    /\ activeSessions' = [a \in Agents |-> NoSession]
    /\ lastOp' = [op |-> "cleanup"]
    /\ emitted' = <<>>
    /\ UNCHANGED <<now, stateAgents, stateChildren, trackerCalls, unsent,
                   enforcerVars, otherVars>>

\* getChildSessions: the agents listed, in the Map's iteration order
RECURSIVE ChildSessionsOver(_, _)
ChildSessionsOver(order, childId) ==
    IF order = <<>> THEN <<>>
    ELSE LET a == Head(order)
             rest == ChildSessionsOver(Tail(order), childId)
         IN IF activeSessions[a] # NoSession /\ activeSessions[a].childId = childId
            THEN <<a>> \o rest
            ELSE rest

getChildSessions(childId) == ChildSessionsOver(<<"a1", "a2">>, childId)

\* time passes
AdvanceTracker(d) ==
    /\ now + d <= MaxTrackerTicks * Max(TrackerSteps)
    /\ now' = now + d
    /\ lastOp' = [op |-> "advance"]
    /\ emitted' = <<>>
    /\ UNCHANGED <<stateAgents, stateChildren, trackerVars, enforcerVars, otherVars>>

----------------------------------------------------------------------------
(* QuotaEnforcer *)

\* state.settings.warningMinutes, as the plugin's default state sets it
WarningMinutes == <<15, 5, 1>>
Thresholds == {WarningMinutes[i] : i \in DOMAIN WarningMinutes}

\* warningMinutes.sort((a, b) => a - b)
RECURSIVE SortAscending(_)
SortAscending(seq) ==
    IF seq = <<>> THEN <<>>
    ELSE LET m == Min({seq[i] : i \in DOMAIN seq})
             k == Min({i \in DOMAIN seq : seq[i] = m})
         IN <<m>> \o SortAscending(SubSeq(seq, 1, k - 1) \o SubSeq(seq, k + 1, Len(seq)))

\* warningMinutes.sort((a, b) => b - a)
RECURSIVE SortDescending(_)
SortDescending(seq) ==
    IF seq = <<>> THEN <<>>
    ELSE LET m == Max({seq[i] : i \in DOMAIN seq})
             k == Min({i \in DOMAIN seq : seq[i] = m})
         IN <<m>> \o SortDescending(SubSeq(seq, 1, k - 1) \o SubSeq(seq, k + 1, Len(seq)))

\* an allowance of the authority: checkActivity's result
Allowance(allowed, banned, blocked, remaining, reason) ==
    [allowed |-> allowed, is_banned |-> banned, is_activity_blocked |-> blocked,
     remaining_seconds |-> remaining, ban_reason |-> reason]

\* remaining_seconds the authority reports: overdrawn, unlimited, exhausted,
\* 30 s, 4 min, exactly 15 min, 16 min
RemainingValues == {-30, -1, 0, 30, 240, 900, 960}

\* the answers the authority gives; "" is an absent ban_reason
Allowances ==
    {Allowance(TRUE, FALSE, FALSE, r, "") : r \in RemainingValues} \cup
    {Allowance(TRUE, TRUE, FALSE, -1, "Bedtime"),
     Allowance(TRUE, FALSE, TRUE, 30, ""),
     Allowance(FALSE, FALSE, FALSE, 240, "")}

\* the call threw: fetchAllowance returns null
Failed == [failed |-> TRUE]

BlockBrowsers(agentId, childId, reason) ==
    [type |-> "block-browsers", agentId |-> agentId, childId |-> childId,
     reason |-> reason]

\* remaining is remainingSeconds / 60 minutes, kept as the exact fraction num/den
ShowWarning(agentId, childId, remainingSeconds, urgency) ==
    [type |-> "show-warning", agentId |-> agentId, childId |-> childId,
     remaining |-> [num |-> remainingSeconds, den |-> SecondsPerMinute],
     activityType |-> "internet", urgency |-> urgency]

\* threshold <= 5 ? 'critical' : threshold <= 15 ? 'high' : 'normal'
UrgencyShifted(threshold) ==
    IF threshold <= 5 THEN "critical"
    ELSE IF threshold <= 15 THEN "high" ELSE "normal"

\* threshold <= 1 ? 'critical' : threshold <= 5 ? 'high' : 'normal'
Urgency(threshold) ==
    IF threshold <= 1 THEN "critical"
    ELSE IF threshold <= 5 THEN "high" ELSE "normal"

\* `warned${threshold}`
WarningKey(threshold) ==
    CASE threshold = 15 -> "warned15"
      [] threshold = 5 -> "warned5"
      [] threshold = 1 -> "warned1"

\* the for loop over the sorted thresholds, up to its break: the first threshold
\* with remainingMinutes <= threshold and no flag, as <<threshold>>, or <<>>
\* (remainingMinutes = remainingSeconds / 60, compared without rounding)
RECURSIVE FirstWarning(_, _, _)
FirstWarning(sorted, remainingSeconds, flags) ==
    IF sorted = <<>> THEN <<>>
    ELSE IF /\ remainingSeconds <= Head(sorted) * SecondsPerMinute
            /\ WarningKey(Head(sorted)) \notin flags
         THEN <<Head(sorted)>>
         ELSE FirstWarning(Tail(sorted), remainingSeconds, flags)

\* getWarningState: the child's flags, an empty entry being created when absent
getWarningState(childId) ==
    IF warningStates[childId] = NoEntry THEN {} ELSE warningStates[childId].flags

\* the warning thresholds without `warningState[warningKey] = true`
CheckWarningsUnflagged(agentId, childId, remainingSeconds) ==
    LET flags == getWarningState(childId)
        hit == FirstWarning(SortDescending(WarningMinutes), remainingSeconds, flags)
    IN /\ warningStates' = [warningStates EXCEPT ![childId] = [flags |-> flags]]
       /\ IF hit = <<>>
          THEN /\ emitted' = <<>>
               /\ UNCHANGED warnCount
          ELSE /\ emitted' = <<ShowWarning(agentId, childId, remainingSeconds, Urgency(hit[1]))>>
               /\ warnCount' = [warnCount EXCEPT ![childId][hit[1]] = @ + 1]

\* checkQuota from line 130: the warning thresholds
CheckWarnings(agentId, childId, remainingSeconds) ==
    LET flags == getWarningState(childId)
        hit == FirstWarning(SortDescending(WarningMinutes), remainingSeconds, flags)
    IN IF hit = <<>>
       THEN /\ emitted' = <<>>
            /\ warningStates' = [warningStates EXCEPT ![childId] = [flags |-> flags]]
            /\ UNCHANGED warnCount
       ELSE /\ emitted' = <<ShowWarning(agentId, childId, remainingSeconds, Urgency(hit[1]))>>
            /\ warningStates' = [warningStates EXCEPT ![childId] =
                  [flags |-> flags \cup {WarningKey(hit[1])}]]
            /\ warnCount' = [warnCount EXCEPT ![childId][hit[1]] = @ + 1]

\* checkQuota with the unlimited test moved ahead of the blocking conditions
DecideUnlimitedFirst(agentId, childId, allowance) ==
    IF allowance.remaining_seconds = -1
    THEN /\ emitted' = <<>>
         /\ UNCHANGED <<warningStates, warnCount>>
    ELSE IF allowance.is_banned \/ allowance.is_activity_blocked
    THEN /\ emitted' = <<BlockBrowsers(agentId, childId,
                IF allowance.ban_reason # "" THEN allowance.ban_reason
                ELSE "Activity is blocked")>>
         /\ UNCHANGED <<warningStates, warnCount>>
    ELSE IF ~allowance.allowed
    THEN /\ emitted' = <<BlockBrowsers(agentId, childId, "Internet time not allowed")>>
         /\ UNCHANGED <<warningStates, warnCount>>
    ELSE IF allowance.remaining_seconds <= 0
    THEN /\ emitted' = <<BlockBrowsers(agentId, childId, "Daily internet time exhausted")>>
         /\ UNCHANGED <<warningStates, warnCount>>
    ELSE CheckWarnings(agentId, childId, allowance.remaining_seconds)

\* checkQuota with `remainingSeconds < 0` for its exhausted test
DecideExhaustedBelowZero(agentId, childId, allowance) ==
    IF allowance.is_banned \/ allowance.is_activity_blocked
    THEN /\ emitted' = <<BlockBrowsers(agentId, childId,
                IF allowance.ban_reason # "" THEN allowance.ban_reason
                ELSE "Activity is blocked")>>
         /\ UNCHANGED <<warningStates, warnCount>>
    ELSE IF ~allowance.allowed
    THEN /\ emitted' = <<BlockBrowsers(agentId, childId, "Internet time not allowed")>>
         /\ UNCHANGED <<warningStates, warnCount>>
    ELSE IF allowance.remaining_seconds = -1
    THEN /\ emitted' = <<>>
         /\ UNCHANGED <<warningStates, warnCount>>
    ELSE IF allowance.remaining_seconds < 0
    THEN /\ emitted' = <<BlockBrowsers(agentId, childId, "Daily internet time exhausted")>>
         /\ UNCHANGED <<warningStates, warnCount>>
    ELSE CheckWarnings(agentId, childId, allowance.remaining_seconds)

\* checkQuota from line 87, with the allowance in hand
Decide(agentId, childId, allowance) ==
    IF allowance.is_banned \/ allowance.is_activity_blocked
    THEN /\ emitted' = <<BlockBrowsers(agentId, childId,
                IF allowance.ban_reason # "" THEN allowance.ban_reason
                ELSE "Activity is blocked")>>
         /\ UNCHANGED <<warningStates, warnCount>>
    ELSE IF ~allowance.allowed
    THEN /\ emitted' = <<BlockBrowsers(agentId, childId, "Internet time not allowed")>>
         /\ UNCHANGED <<warningStates, warnCount>>
    ELSE IF allowance.remaining_seconds = -1
    THEN /\ emitted' = <<>>
         /\ UNCHANGED <<warningStates, warnCount>>
    ELSE IF allowance.remaining_seconds <= 0
    THEN /\ emitted' = <<BlockBrowsers(agentId, childId, "Daily internet time exhausted")>>
         /\ UNCHANGED <<warningStates, warnCount>>
    ELSE CheckWarnings(agentId, childId, allowance.remaining_seconds)

\* the cache test with `<=` for `<`
CacheFreshInclusive(childId) ==
    /\ quotaCache[childId] # NoEntry
    /\ now - quotaCache[childId].timestamp <= CacheTTL

\* fetchAllowance's cache test
CacheFresh(childId) ==
    /\ quotaCache[childId] # NoEntry
    /\ now - quotaCache[childId].timestamp < CacheTTL

CheckQuotaOp(agentId, childId, allowance, fromCache, notified) ==
    [op |-> "checkQuota", agentId |-> agentId, childId |-> childId,
     allowance |-> allowance, fromCache |-> fromCache, notified |-> notified]

\* checkQuota up to the await of the authority: a fresh cache entry is decided on
\* at once, otherwise checkActivity is called and awaited
\* `notified` marks the checks the stateChange listener makes
CheckQuotaFrom(agentId, childId, notified) ==
    /\ IF CacheFresh(childId)
       THEN /\ Decide(agentId, childId, quotaCache[childId].allowance)
            /\ lastOp' = CheckQuotaOp(agentId, childId, quotaCache[childId].allowance,
                                      TRUE, notified)
            /\ UNCHANGED <<quotaCache, enforcerCalls>>
       ELSE /\ BagCardinality(enforcerCalls) < MaxEnforcerCalls
            /\ enforcerCalls' = enforcerCalls (+)
                  SetToBag({[agentId |-> agentId, childId |-> childId,
                             notified |-> notified]})
            /\ lastOp' = [op |-> "checkQuotaAwaits", agentId |-> agentId, childId |-> childId]
            /\ emitted' = <<>>
            /\ UNCHANGED <<quotaCache, warningStates, warnCount>>
    /\ UNCHANGED <<now, stateAgents, stateChildren, agentSideVars, trackerVars, managerVars,
                   quotaManagerVars>>

\* a check made by handleBrowserData or the periodic sweep
CheckQuota(agentId, childId) ==
    /\ CheckQuotaFrom(agentId, childId, FALSE)
    /\ UNCHANGED stateChange

\* checkActivity returns an allowance: it is cached and checkQuota decides on it
CheckActivityReturns(call, allowance) ==
    /\ enforcerCalls' = enforcerCalls (-) SetToBag({call})
    /\ quotaCache' = [quotaCache EXCEPT ![call.childId] =
          [allowance |-> allowance, timestamp |-> now]]
    /\ Decide(call.agentId, call.childId, allowance)
    /\ lastOp' = CheckQuotaOp(call.agentId, call.childId, allowance, FALSE, call.notified)
    /\ UNCHANGED <<now, stateAgents, stateChildren, trackerVars, otherVars>>

\* checkQuota failing closed: a block when fetchAllowance returns null
CheckActivityThrowsBlocks(call) ==
    /\ enforcerCalls' = enforcerCalls (-) SetToBag({call})
    /\ lastOp' = CheckQuotaOp(call.agentId, call.childId, Failed, FALSE, call.notified)
    /\ emitted' = <<BlockBrowsers(call.agentId, call.childId, "Activity is blocked")>>
    /\ UNCHANGED <<quotaCache, warningStates, warnCount>>
    /\ UNCHANGED <<now, stateAgents, stateChildren, trackerVars, otherVars>>

\* checkActivity throws: fetchAllowance returns null and checkQuota returns
CheckActivityThrows(call) ==
    /\ enforcerCalls' = enforcerCalls (-) SetToBag({call})
    /\ lastOp' = CheckQuotaOp(call.agentId, call.childId, Failed, FALSE, call.notified)
    /\ emitted' = <<>>
    /\ UNCHANGED <<quotaCache, warningStates, warnCount>>
    /\ UNCHANGED <<now, stateAgents, stateChildren, trackerVars, otherVars>>

\* resetWarningState
resetWarningState(ws, childId) == [ws EXCEPT ![childId] = NoEntry]

----------------------------------------------------------------------------
(* The plugin: the daily reset and its listeners *)

\* the listeners setupControllerEvents registers for the tracker's daily-reset
\* event: none, so the enforcer's warning flags stay as they are
OnDailyReset(ws, childId) == ws

\* new Date(year, month, date).getTime(): today's midnight (local time taken as UTC)
TodayStart == (now \div MsPerDay) * MsPerDay

\* the staleness test with <= for <
StaleChildrenInclusive ==
    {c \in Children : stateChildren[c] # NoChild /\ stateChildren[c].lastReset <= TodayStart}

StaleChildren ==
    {c \in Children : stateChildren[c] # NoChild /\ stateChildren[c].lastReset < TodayStart}

RECURSIVE DailyResetEvents(_)
DailyResetEvents(order) ==
    IF order = <<>> THEN <<>>
    ELSE (IF Head(order) \in StaleChildren
          THEN <<[type |-> "daily-reset", childId |-> Head(order)]>> ELSE <<>>)
         \o DailyResetEvents(Tail(order))

RECURSIVE AfterListeners(_, _)
AfterListeners(ws, events) ==
    IF events = <<>> THEN ws
    ELSE AfterListeners(OnDailyReset(ws, Head(events).childId), Tail(events))

\* checkDailyReset, the tracker's once-a-minute timer callback
CheckDailyReset ==
    /\ stateChildren' = [c \in Children |->
          IF c \in StaleChildren
          THEN [usageToday |-> 0, lastReset |-> now] ELSE stateChildren[c]]
    /\ emitted' = DailyResetEvents(<<"c1", "c2">>)
    /\ warningStates' = AfterListeners(warningStates, emitted')
    /\ lastOp' = [op |-> "checkDailyReset"]
    /\ UNCHANGED <<now, stateAgents, trackerVars, quotaCache, enforcerCalls, warnCount, otherVars>>

\* the steps the enforcer's clock has taken
EnforcerTicks == (now \div MsPerDay) + ((now % MsPerDay) \div Max(EnforcerSteps))

\* time passes within the day
AdvanceEnforcer(d) ==
    /\ EnforcerTicks < MaxEnforcerTicks
    /\ now' = now + d
    /\ lastOp' = [op |-> "advance"]
    /\ emitted' = <<>>
    /\ UNCHANGED <<stateAgents, stateChildren, trackerVars, enforcerVars, otherVars>>

\* time passes to the next midnight
Midnight ==
    /\ EnforcerTicks < MaxEnforcerTicks
    /\ now' = (now \div MsPerDay + 1) * MsPerDay
    /\ lastOp' = [op |-> "midnight"]
    /\ emitted' = <<>>
    /\ UNCHANGED <<stateAgents, stateChildren, trackerVars, enforcerVars, otherVars>>

\* the controllers as constructed, before any event
InitParentSide ==
    /\ now = 0
    /\ activeSessions = [a \in Agents |-> NoSession]
    /\ logIntervals = [a \in Agents |-> NoTimer]
    /\ timers = EmptyBag
    /\ trackerCalls = EmptyBag
    /\ unsent = [a \in Agents |-> 0]
    /\ warningStates = [c \in Children |-> NoEntry]
    /\ quotaCache = [c \in Children |-> NoEntry]
    /\ enforcerCalls = EmptyBag
    /\ warnCount = [c \in Children |-> [t \in Thresholds |-> 0]]
    /\ pendingShutdowns = [a \in Agents |-> NoShutdown]
    /\ managerCalls = EmptyBag
    /\ violations = <<>>
    /\ usage = [r \in Runs |-> NoUsage]
    /\ usageEvents = [r \in Runs |-> <<>>]
    /\ stateChange = NoStateChange
    /\ lastOp = NoOp
    /\ emitted = <<>>

NoDetector == [none |-> "detector"]
Pids == {1, 2, 3}

\* new DetectorFactory(context); no detector is constructed yet
InitDetectors ==
    /\ factory = [mode |-> "auto", activeDetector |-> "null"]
    /\ processDetector = NoDetector
    /\ extensionDetector = NoDetector
    /\ lastEvent = [pid \in Pids |-> "none"]

InitClassifier ==
    /\ customRules = <<>>
    /\ cache = <<>>
    /\ classifierOps = 0

InitControllers ==
    /\ InitParentSide
    /\ InitClassifier
    /\ InitDetectors

----------------------------------------------------------------------------
(* The tracker on its own.  The plugin is loaded with a persisted state in *)
(* which every agent is linked to a child (linkAgent also creates the      *)
(* child's usage entry); handleBrowserData and the unlink handler call the *)
(* tracker with the agent's linked child.  The agents share a child or     *)
(* have a child each; the other two assignments are these with the         *)
(* children renamed.                                                       *)

InitTracker ==
    /\ stateAgents \in {[a \in Agents |-> "c1"],
                        [a \in Agents |-> IF a = "a1" THEN "c1" ELSE "c2"]}
    /\ stateChildren = [c \in Children |->
          IF \E a \in Agents : stateAgents[a] = c
          THEN [usageToday |-> 0, lastReset |-> 0] ELSE NoChild]
    /\ InitControllers

NextTracker ==
    \/ \E a \in Agents : RecordActivity(a, stateAgents[a])
    \/ \E a \in Agents : EndSession(a, stateAgents[a])
    \/ \E a \in Agents : EndAllSessions(a)
    \/ \E t \in BagToSet(timers) : FlushTick(t)
    \/ \E call \in BagToSet(trackerCalls), ok \in BOOLEAN : LogUsageReturns(call, ok)
    \/ Cleanup
    \/ \E d \in TrackerSteps : AdvanceTracker(d)

SpecTracker == InitTracker /\ [][NextTracker]_vars

----------------------------------------------------------------------------
(* The enforcer with the plugin's daily reset.  The plugin is loaded with  *)
(* a persisted state in which every agent is linked to the child c1;       *)
(* handleBrowserData, the periodic sweep and the state-change listener     *)
(* call checkQuota with an agent and its linked child.                     *)

InitEnforcer ==
    /\ stateAgents = [a \in Agents |-> "c1"]
    /\ stateChildren = [c \in Children |->
          IF c = "c1" THEN [usageToday |-> 0, lastReset |-> 0] ELSE NoChild]
    /\ InitControllers

NextEnforcer ==
    \/ \E a \in Agents : CheckQuota(a, stateAgents[a])
    \/ \E call \in BagToSet(enforcerCalls), al \in Allowances : CheckActivityReturns(call, al)
    \/ \E call \in BagToSet(enforcerCalls) : CheckActivityThrows(call)
    \/ CheckDailyReset
    \/ \E d \in EnforcerSteps : AdvanceEnforcer(d)
    \/ Midnight

SpecEnforcer == InitEnforcer /\ [][NextEnforcer]_vars

----------------------------------------------------------------------------
(* Properties of the tracker, checked under SpecTracker *)

\* the usage-logging calls of the agent that await the authority
CallsInFlight(a) ==
    {call \in BagToSet(trackerCalls) : call.agentId = a}

NumCallsInFlight(a) ==
    BagCardinality([call \in CallsInFlight(a) |-> trackerCalls[call]])

\* the live flush timers started for the agent
NumTimers(a) ==
    BagCardinality([t \in {t \in BagToSet(timers) : t.agentId = a} |-> timers[t]])

\* C1: closing a session sends every accumulated-but-unflushed second of the
\* session to the authority exactly once: whatever endSession interleaves
\* with (a flush tick, a second endSession, a recordActivity during its
\* await), no second is handed to the authority twice (unsent never goes
\* below zero) and none is dropped (once the agent has no session and no
\* call in flight, nothing is left unsent).
C1_ClosingSendsEachSecondOnce ==
    \A a \in Agents :
        /\ unsent[a] >= 0
        /\ (activeSessions[a] = NoSession /\ NumCallsInFlight(a) = 0) => unsent[a] = 0

\* C2: no two flush operations for the same agent are in progress at the
\* same time: the flush timer callback and endSession never both await the
\* authority for one agent.
C2_FlushesSerializedPerAgent ==
    \A a \in Agents : NumCallsInFlight(a) <= 1

\* C3: each agent has at most one open session: a recordActivity for an
\* agent with an open session emits no session-started, an agent never has
\* two live flush timers (and has one exactly while it has a handle for it),
\* and getChildSessions(child) lists each agent with an open session for that
\* child exactly once, and no other agent.
C3_OneOpenSessionPerAgent ==
    /\ \A a \in Agents :
          /\ NumTimers(a) <= 1
          /\ NumTimers(a) = 1 <=> logIntervals[a] # NoTimer
    /\ (lastOp.op = "recordActivity" /\ lastOp.existing) =>
          \A i \in DOMAIN emitted : emitted[i].type # "session-started"
    /\ \A c \in Children :
          LET listed == getChildSessions(c)
              open == {a \in Agents :
                         activeSessions[a] # NoSession /\ activeSessions[a].childId = c}
          IN /\ {listed[i] : i \in DOMAIN listed} = open
             /\ Len(listed) = Cardinality(open)

\* recordActivity has just run for an agent whose session was open, while both
\* agents have a session open for the same child
C3_Witness ==
    /\ lastOp.op = "recordActivity"
    /\ lastOp.existing
    /\ \E c \in Children : Len(getChildSessions(c)) = 2

----------------------------------------------------------------------------
(* Properties of the enforcer, checked under SpecEnforcer *)

\* checkQuota has just decided on (or given up for want of) an allowance
Checked == lastOp.op = "checkQuota"

\* ... on an allowance of a child that is neither banned, blocked nor disallowed
CheckedInGoodStanding ==
    /\ Checked
    /\ lastOp.allowance \in Allowances
    /\ ~lastOp.allowance.is_banned
    /\ ~lastOp.allowance.is_activity_blocked
    /\ lastOp.allowance.allowed

Blocks == {i \in DOMAIN emitted : emitted[i].type = "block-browsers"}
Warnings == {i \in DOMAIN emitted : emitted[i].type = "show-warning"}

\* C4: when the authority call of checkQuota throws, checkQuota emits
\* neither a block-browsers nor a show-warning event and leaves the warning
\* flags and the allowance cache as they were; and no block or warning is
\* ever emitted except by a check that holds an allowance of the authority.
C4_FailedCheckFailsOpen ==
    /\ [](Blocks \cup Warnings # {} => Checked /\ lastOp.allowance \in Allowances)
    /\ [][(lastOp'.op = "checkQuota" /\ lastOp'.allowance = Failed) =>
             /\ emitted' = <<>>
             /\ warningStates' = warningStates
             /\ warnCount' = warnCount
             /\ quotaCache' = quotaCache]_vars

\* the authority call of a check has thrown while the child had a warning
\* flag set and an allowance cached
C4_Witness ==
    /\ Checked
    /\ lastOp.allowance = Failed
    /\ getWarningState(lastOp.childId) # {}
    /\ quotaCache[lastOp.childId] # NoEntry

C6_WarningRearmedByRise ==
    [][\A c \in Children :
          (/\ CheckedInGoodStanding
           /\ lastOp.childId = c
           /\ lastOp.allowance.remaining_seconds > 15 * SecondsPerMinute
           /\ warnCount[c][15] >= 1
           /\ lastOp'.op = "checkQuota"
           /\ lastOp'.childId = c
           /\ lastOp'.allowance \in Allowances
           /\ ~lastOp'.allowance.is_banned
           /\ ~lastOp'.allowance.is_activity_blocked
           /\ lastOp'.allowance.allowed
           /\ lastOp'.allowance.remaining_seconds > 0
           /\ lastOp'.allowance.remaining_seconds <= 15 * SecondsPerMinute)
          => warnCount'[c][15] = warnCount[c][15] + 1]_vars

\* C7: when the tracker's daily reset fires for a child, the child's
\* warning-threshold flags are cleared.
C7_DailyResetClearsWarnings ==
    \A i \in DOMAIN emitted :
        emitted[i].type = "daily-reset" => getWarningState(emitted[i].childId) = {}

\* C8: the outcome of checkQuota on an allowance is fixed by the first rule
\* that matches, in this order: banned or activity blocked -> one block with
\* the ban reason or "Activity is blocked"; not allowed -> one block
\* "Internet time not allowed"; remaining -1 -> no event; remaining <= 0 ->
\* one block "Daily internet time exhausted"; otherwise at most one warning
\* and no block.  No check emits both a block and a warning.
C8_FirstMatchingRuleDecides ==
    (Checked /\ lastOp.allowance \in Allowances) =>
        LET al == lastOp.allowance
            Block(reason) == <<[type |-> "block-browsers", agentId |-> lastOp.agentId,
                                childId |-> lastOp.childId, reason |-> reason]>>
        IN /\ ~(Blocks # {} /\ Warnings # {})
           /\ IF al.is_banned \/ al.is_activity_blocked
              THEN emitted = Block(IF al.ban_reason = "" THEN "Activity is blocked"
                                   ELSE al.ban_reason)
              ELSE IF ~al.allowed
              THEN emitted = Block("Internet time not allowed")
              ELSE IF al.remaining_seconds = -1
              THEN emitted = <<>>
              ELSE IF al.remaining_seconds <= 0
              THEN emitted = Block("Daily internet time exhausted")
              ELSE Blocks = {} /\ Len(emitted) <= 1

\* a banned child with unlimited remaining time has been blocked with the
\* authority's reason
C8_Witness ==
    /\ Checked
    /\ lastOp.allowance \in Allowances
    /\ lastOp.allowance.is_banned
    /\ lastOp.allowance.remaining_seconds = -1
    /\ Blocks = {1}
    /\ emitted[1].reason = "Bedtime"

\* the keys an exhausted flag of the child would be kept under
ExhaustedKeys == {"exhausted", "exhaustedInternet"}

C10_OneWarningPerCheck ==
    [][\A c \in Children :
        (/\ lastOp'.op = "checkQuota"
         /\ lastOp'.childId = c
         /\ lastOp'.allowance \in Allowances
         /\ ~lastOp'.allowance.is_banned
         /\ ~lastOp'.allowance.is_activity_blocked
         /\ lastOp'.allowance.allowed
         /\ lastOp'.allowance.remaining_seconds > 0) =>
          LET rem == lastOp'.allowance.remaining_seconds
              due == {t \in Thresholds :
                        /\ rem <= t * SecondsPerMinute
                        /\ WarningKey(t) \notin getWarningState(c)}
              t == Max(due)
          IN IF due = {}
             THEN /\ emitted' = <<>>
                  /\ getWarningState(c)' = getWarningState(c)
             ELSE /\ emitted' =
                        <<[type |-> "show-warning", agentId |-> lastOp'.agentId,
                           childId |-> c,
                           remaining |-> [num |-> rem, den |-> SecondsPerMinute],
                           activityType |-> "internet",
                           urgency |-> IF t <= 1 THEN "critical"
                                       ELSE IF t <= 5 THEN "high" ELSE "normal"]>>
                  /\ getWarningState(c)' = getWarningState(c) \cup {WarningKey(t)}
                  /\ \A u \in Thresholds :
                        warnCount'[c][u] = warnCount[c][u] + (IF u = t THEN 1 ELSE 0)]_vars

\* a check of 30 seconds remaining has emitted the 5-minute warning, the
\* 15-minute one having fired before and the 1-minute one being still due
C10_Witness ==
    /\ CheckedInGoodStanding
    /\ lastOp.allowance.remaining_seconds = 30
    /\ Warnings = {1}
    /\ emitted[1].urgency = "high"
    /\ getWarningState(lastOp.childId) = {"warned15", "warned5"}

\* the show-warning event of a check of `rem` seconds remaining
WarningOf(op, rem, urgency) ==
    <<[type |-> "show-warning", agentId |-> op.agentId, childId |-> op.childId,
       remaining |-> [num |-> rem, den |-> SecondsPerMinute],
       activityType |-> "internet", urgency |-> urgency]>>

\* a step in which checkQuota decides, for child c, on an allowance of a child
\* in good standing with `rem` seconds remaining
ChecksRemaining(c, rem) ==
    /\ lastOp'.op = "checkQuota"
    /\ lastOp'.childId = c
    /\ lastOp'.allowance \in Allowances
    /\ ~lastOp'.allowance.is_banned
    /\ ~lastOp'.allowance.is_activity_blocked
    /\ lastOp'.allowance.allowed
    /\ lastOp'.allowance.remaining_seconds = rem

----------------------------------------------------------------------------
(* BrowserQuotaManager: the host-side controller that accumulates the      *)
(* browser time of the session's child itself and compares it with the     *)
(* configured daily quota.  usage.internetTime is kept here in             *)
(* milliseconds (the code keeps seconds as a float: elapsed / 1000).  Two  *)
(* runs of the manager share the clock, the timers and the configuration,  *)
(* and differ only in the browser events the detector reports to them.     *)

MaxQuotaManagerTicks == 2
QuotaManagerSteps == {60000}
BrowserNames == {"chrome"}

\* config.children[childId].internetTimeDaily, in minutes
InternetTimeDaily == 2
MsPerMinute == MsPerSecond * SecondsPerMinute

\* this.warningThresholds, in the array's order
warningThresholds == <<15, 5, 1>>

\* Math.round of a non-negative quotient num / den
Round(num, den) == (2 * num + den) \div (2 * den)

\* ensureUsageData: a fresh record unless the child has one
ensureUsageData(u) ==
    IF u # NoUsage THEN u
    ELSE [internetTime |-> 0, lastUpdate |-> now, browserActive |-> FALSE,
          activeBrowsers |-> {}, exhaustedInternet |-> FALSE, warned |-> {}]

handleBrowserStarted(u, name) ==
    [ensureUsageData(u) EXCEPT !.browserActive = TRUE,
                               !.lastUpdate = now,
                               !.activeBrowsers = @ \cup {name}]

handleBrowserStopped(u, name) ==
    IF u = NoUsage THEN u
    ELSE [u EXCEPT !.activeBrowsers = @ \ {name},
                   !.browserActive = (u.activeBrowsers \ {name}) # {}]

\* updateUsage: the time since the last update counts when a browser is up
updateUsage(u) ==
    IF u = NoUsage THEN u
    ELSE [u EXCEPT !.internetTime = IF u.browserActive
                                    THEN @ + (now - u.lastUpdate) ELSE @,
                   !.lastUpdate = now]

QuotaExhausted(u, quota) ==
    [type |-> "quota-exhausted", used |-> Round(u.internetTime, MsPerMinute),
     quota |-> quota]

QuotaWarning(remainingMs, threshold) ==
    [type |-> "quota-warning", remaining |-> Round(remainingMs, MsPerMinute),
     threshold |-> threshold]

\* the thresholds the loop warns for: every one reached and not yet flagged
WarnedNow(u, remainingMs) ==
    SelectSeq(warningThresholds,
              LAMBDA t : remainingMs <= t * MsPerMinute /\ t \notin u.warned)

SeqRange(seq) == {seq[i] : i \in DOMAIN seq}

\* checkInternetQuota: the record after the check and the events emitted
checkInternetQuota(u, quota) ==
    LET remainingMs == quota * MsPerMinute - u.internetTime
    IN IF quota = 0
       THEN [usage |-> u, events |-> <<>>]
       ELSE IF remainingMs <= 0
       THEN [usage |-> [u EXCEPT !.exhaustedInternet = TRUE],
             events |-> IF u.exhaustedInternet THEN <<>>
                        ELSE <<QuotaExhausted(u, quota)>>]
       ELSE [usage |-> [u EXCEPT !.exhaustedInternet = FALSE,
                                 !.warned = @ \cup SeqRange(WarnedNow(u, remainingMs))],
             events |-> [i \in DOMAIN WarnedNow(u, remainingMs) |->
                            QuotaWarning(remainingMs, WarnedNow(u, remainingMs)[i])]]

\* checkQuotas: every child that has usage data is checked
checkQuotas(u) ==
    IF u = NoUsage THEN [usage |-> u, events |-> <<>>]
    ELSE checkInternetQuota(u, InternetTimeDaily)

\* the detector of one run reports a browser started
BrowserStarted(r, name) ==
    /\ usage' = [usage EXCEPT ![r] = handleBrowserStarted(@, name)]
    /\ lastOp' = [op |-> "handleBrowserStarted", run |-> r]
    /\ emitted' = <<>>
    /\ UNCHANGED <<now, stateAgents, stateChildren, agentSideVars, trackerVars, enforcerVars,
                   managerVars, stateChange, usageEvents>>

\* the detector of one run reports a browser stopped
BrowserStopped(r, name) ==
    /\ usage' = [usage EXCEPT ![r] = handleBrowserStopped(@, name)]
    /\ lastOp' = [op |-> "handleBrowserStopped", run |-> r]
    /\ emitted' = <<>>
    /\ UNCHANGED <<now, stateAgents, stateChildren, agentSideVars, trackerVars, enforcerVars,
                   managerVars, stateChange, usageEvents>>

\* the 5-second timer, in both runs
UpdateUsageTick ==
    /\ usage' = [r \in Runs |-> updateUsage(usage[r])]
    /\ lastOp' = [op |-> "updateUsage"]
    /\ emitted' = <<>>
    /\ UNCHANGED <<now, stateAgents, stateChildren, agentSideVars, trackerVars, enforcerVars,
                   managerVars, stateChange, usageEvents>>

\* the 30-second timer, in both runs
CheckQuotasTick ==
    /\ usage' = [r \in Runs |-> checkQuotas(usage[r]).usage]
    /\ usageEvents' = [r \in Runs |-> usageEvents[r] \o checkQuotas(usage[r]).events]
    /\ lastOp' = [op |-> "checkQuotas"]
    /\ emitted' = <<>>
    /\ UNCHANGED <<now, stateAgents, stateChildren, agentSideVars, trackerVars, enforcerVars,
                   managerVars, stateChange>>

\* time passes
AdvanceQuotaManager(d) ==
    /\ now + d <= MaxQuotaManagerTicks * d
    /\ now' = now + d
    /\ lastOp' = [op |-> "advance"]
    /\ emitted' = <<>>
    /\ UNCHANGED <<stateAgents, stateChildren, agentSideVars, trackerVars, enforcerVars,
                   managerVars, quotaManagerVars, stateChange>>

InitQuotaManager == InitEnforcer

NextQuotaManager ==
    \/ \E r \in Runs, name \in BrowserNames : BrowserStarted(r, name)
    \/ \E r \in Runs, name \in BrowserNames : BrowserStopped(r, name)
    \/ UpdateUsageTick
    \/ CheckQuotasTick
    \/ \E d \in QuotaManagerSteps : AdvanceQuotaManager(d)

SpecQuotaManager == InitQuotaManager /\ [][NextQuotaManager]_vars

\* C12 (as stated): the block and warning intents depend only on what the
\* authority answered, never on the seconds accumulated locally: two runs
\* that got the same answers from the authority (here: none, the manager
\* never asks) and both track the child have emitted the same sequence of
\* intents after every check, whatever browser activity each of them saw.
C12_IntentsIndependentOfLocalUsage ==
    (/\ lastOp.op = "checkQuotas"
     /\ \A r \in Runs : usage[r] # NoUsage)
        => usageEvents[1] = usageEvents[2]


----------------------------------------------------------------------------
\* C20: endSession and endAllSessions for an agent that has no open session
\* are no-ops: no usage-logging call is made, no event is emitted, no timer
\* is touched, and the sessions and the children's usage are unchanged.
C20_EndWithoutSessionIsNoOp ==
    [][\A a \in Agents :
          (/\ lastOp'.op \in {"endSession", "endAllSessions"}
           /\ lastOp'.agentId = a
           /\ activeSessions[a] = NoSession)
          => /\ emitted' = <<>>
             /\ trackerVars' = trackerVars
             /\ stateChildren' = stateChildren]_vars

\* an endSession that found no session while another agent's session, its
\* timer and a usage-logging call were there to be left alone
C20_Witness ==
    /\ lastOp.op = "endSession"
    /\ emitted = <<>>
    /\ activeSessions[lastOp.agentId] = NoSession
    /\ NumCallsInFlight(lastOp.agentId) = 0
    /\ timers # EmptyBag
    /\ trackerCalls # EmptyBag


----------------------------------------------------------------------------
\* C18: a flush tick that finds accumulated seconds sends exactly them in
\* one usage-logging call that consumes quota and resets the accumulated
\* seconds to 0 before the call is answered; a tick that finds none (no new
\* activity since the last one) sends nothing; and the answer to a flush
\* call, success or failure, neither restores the seconds nor sends again.
C18_FlushSendsOnceAndResets ==
    [][\A a \in Agents :
          LET s == activeSessions[a]
              pending == s # NoSession /\ s.accumulatedSeconds > 0
          IN /\ (lastOp'.op = "flushTick" /\ lastOp'.agentId = a /\ pending)
                   => /\ \E c \in Children :
                            trackerCalls' = trackerCalls (+) SetToBag(
                               {[kind |-> "flush", agentId |-> a, childId |-> c,
                                 seconds |-> s.accumulatedSeconds,
                                 log_usage |-> TRUE]})
                      /\ activeSessions'[a].accumulatedSeconds = 0
             /\ (lastOp'.op = "flushTick" /\ lastOp'.agentId = a /\ ~pending)
                   => trackerCalls' = trackerCalls
             /\ (/\ lastOp'.op = "logUsageReturns"
                 /\ lastOp'.kind = "flush"
                 /\ lastOp'.agentId = a)
                   => /\ activeSessions' = activeSessions
                      /\ BagCardinality(trackerCalls') = BagCardinality(trackerCalls) - 1]_vars

\* a flush call failed and the session's accumulated seconds stayed at 0
C18_Witness ==
    /\ lastOp.op = "logUsageReturns"
    /\ lastOp.kind = "flush"
    /\ emitted = <<>>
    /\ activeSessions[lastOp.agentId] # NoSession
    /\ activeSessions[lastOp.agentId].logged
    /\ activeSessions[lastOp.agentId].accumulatedSeconds = 0
    /\ unsent[lastOp.agentId] = 0


----------------------------------------------------------------------------
\* C19 (as stated): when a session that was never flushed is closed, the
\* seconds sent to the authority are the whole seconds of real time the
\* session has been open, however the recordActivity calls were spaced.
C19_FlushedEqualsOpenTime ==
    [][\A a \in Agents :
          LET s == activeSessions[a]
              open == (now - s.startTime) \div MsPerSecond
          IN (/\ lastOp'.op = "endSession"
              /\ lastOp'.agentId = a
              /\ s # NoSession
              /\ ~s.logged
              /\ NumCallsInFlight(a) = 0)
             => IF open > 0
                THEN \E call \in BagToSet(trackerCalls') :
                        call.agentId = a /\ call.seconds = open
                ELSE trackerCalls' = trackerCalls]_vars


----------------------------------------------------------------------------
\* C17 (as stated): cleanup clears every flush timer and closes every open
\* session: session-ended is emitted for it and, when it has accumulated
\* seconds, a usage-logging call carries them to the authority.
C17_CleanupClosesSessions ==
    [][lastOp'.op = "cleanup" =>
          /\ timers' = EmptyBag
          /\ \A a \in Agents :
                activeSessions[a] # NoSession =>
                   /\ \E i \in DOMAIN emitted' :
                         /\ emitted'[i].type = "session-ended"
                         /\ emitted'[i].agentId = a
                   /\ activeSessions[a].accumulatedSeconds > 0 =>
                         \E call \in BagToSet(trackerCalls') :
                            /\ call.agentId = a
                            /\ CopiesIn(call, trackerCalls') > CopiesIn(call, trackerCalls)]_vars


----------------------------------------------------------------------------
\* the tracker between its construction and its cleanup
NextSessions ==
    \/ \E a \in Agents : RecordActivity(a, stateAgents[a])
    \/ \E a \in Agents : EndSession(a, stateAgents[a])
    \/ \E a \in Agents : EndAllSessions(a)
    \/ \E t \in BagToSet(timers) : FlushTick(t)
    \/ \E call \in BagToSet(trackerCalls), ok \in BOOLEAN : LogUsageReturns(call, ok)
    \/ \E d \in TrackerSteps : AdvanceTracker(d)

SpecSessions == InitTracker /\ [][NextSessions]_vars

\* ipc webBrowsers:linkAgent: the agent is linked to the child, whose usage
\* entry is created if it has none; the tracker is not told
LinkAgent(agentId, childId) ==
    /\ stateAgents' = [stateAgents EXCEPT ![agentId] = childId]
    /\ stateChildren' = IF stateChildren[childId] = NoChild
                        THEN [stateChildren EXCEPT ![childId] =
                                 [usageToday |-> 0, lastReset |-> now]]
                        ELSE stateChildren
    /\ lastOp' = [op |-> "linkAgent", agentId |-> agentId, childId |-> childId]
    /\ emitted' = <<>>
    /\ UNCHANGED <<now, trackerVars, enforcerVars, otherVars>>

\* the tracker with one agent reporting, while the parent links that agent
\* to one child or the other
NextRelink ==
    \/ RecordActivity("a1", stateAgents["a1"])
    \/ EndSession("a1", stateAgents["a1"])
    \/ \E t \in BagToSet(timers) : FlushTick(t)
    \/ \E call \in BagToSet(trackerCalls), ok \in BOOLEAN : LogUsageReturns(call, ok)
    \/ \E c \in Children : LinkAgent("a1", c)
    \/ \E d \in TrackerSteps : AdvanceTracker(d)

SpecRelink == InitTracker /\ [][NextRelink]_vars

\* the events of a type the step emitted for an agent
SessionEvents(type, a) ==
    Cardinality({i \in DOMAIN emitted' :
                    emitted'[i].type = type /\ emitted'[i].agentId = a})

\* C33: per agent session-started and session-ended alternate, beginning
\* with session-started: a step emits session-started only for an agent
\* with no open session, which it opens, and session-ended only for an agent
\* with an open session, which it removes, and at most one of each.
C33_SessionEventsAlternate ==
    [][\A a \in Agents :
          /\ SessionEvents("session-started", a) + SessionEvents("session-ended", a) <= 1
          /\ SessionEvents("session-started", a) = 1
                => activeSessions[a] = NoSession /\ activeSessions'[a] # NoSession
          /\ SessionEvents("session-ended", a) = 1
                => activeSessions[a] # NoSession /\ activeSessions'[a] = NoSession]_vars


\* the usage-logging calls of the agent that the step has issued
IssuedFor(a) ==
    {call \in BagToSet(trackerCalls') :
        call.agentId = a /\ CopiesIn(call, trackerCalls') > CopiesIn(call, trackerCalls)}

\* C36: the seconds of an open session are charged to one child.  The
\* periodic flush of a session may come after any step and names the child
\* the flush timer was started for, so: every step that adds seconds to an
\* agent's open session adds them to the usage-today counter of that child
\* and of no other, and every usage-logging call issued for the agent names
\* that child, also after the agent was linked to another child.
C36_SecondsChargedToOneChild ==
    [][\A a \in Agents :
          activeSessions[a] # NoSession
          => /\ ( /\ activeSessions'[a] # NoSession
                  /\ activeSessions'[a].accumulatedSeconds > activeSessions[a].accumulatedSeconds )
                => \A c \in Children \ {logIntervals[a].childId} :
                      stateChildren'[c] = stateChildren[c]
             /\ \A call \in IssuedFor(a) : call.childId = logIntervals[a].childId]_vars

\* C40: after every operation of the tracker an agent has a flush timer in
\* logIntervals if and only if it has a session in activeSessions.
C40_TimerIffSession ==
    \A a \in Agents : (logIntervals[a] # NoTimer) <=> (activeSessions[a] # NoSession)

\* an endSession that awaited its usage-logging call has ended the session
\* of one agent while the other agent's session and timer stay
C40_Witness ==
    /\ lastOp.op = "logUsageReturns"
    /\ lastOp.kind = "endSession"
    /\ logIntervals[lastOp.agentId] = NoTimer
    /\ \E a \in Agents \ {lastOp.agentId} :
          logIntervals[a] # NoTimer /\ activeSessions[a] # NoSession

----------------------------------------------------------------------------
(* The authority's state-change notifications.  The plugin's stateChange   *)
(* listener checks each agent linked to the child in turn, awaiting each   *)
(* check; QuotaEnforcer.handleExternalChange does the same after deleting  *)
(* the child's cache entry.  One loop runs at a time.  The loop resumes    *)
(* after an awaited check as a step of its own, so other handlers may run  *)
(* in between.                                                             *)

\* Object.entries(state.agents), in insertion order
AgentEntries == <<"a1", "a2">>

childAgents(childId) == SelectSeq(AgentEntries, LAMBDA a : stateAgents[a] = childId)

\* a listener loop has agents left or awaits the check it made
ListenerRunning ==
    /\ stateChange # NoStateChange
    /\ \/ stateChange.rest # <<>>
       \/ \E call \in BagToSet(enforcerCalls) : call.notified

\* allow2Client 'stateChange': the plugin's listener, up to its first await
StateChange(childId) ==
    /\ ~ListenerRunning
    /\ stateChange' = [childId |-> childId, at |-> now,
                       rest |-> IF childAgents(childId) = <<>> THEN <<>>
                                ELSE Tail(childAgents(childId))]
    /\ IF childAgents(childId) = <<>>
       THEN /\ lastOp' = [op |-> "stateChange", childId |-> childId]
            /\ emitted' = <<>>
            /\ UNCHANGED <<now, stateAgents, stateChildren, agentSideVars, trackerVars, enforcerVars,
                           managerVars, quotaManagerVars>>
       ELSE CheckQuotaFrom(Head(childAgents(childId)), childId, TRUE)

\* handleExternalChange, up to its first await: the cache entry is deleted,
\* so the first check calls the authority
HandleExternalChange(childId) ==
    /\ ~ListenerRunning
    /\ stateChange' = [childId |-> childId, at |-> now,
                       rest |-> IF childAgents(childId) = <<>> THEN <<>>
                                ELSE Tail(childAgents(childId))]
    /\ quotaCache' = [quotaCache EXCEPT ![childId] = NoEntry]
    /\ emitted' = <<>>
    /\ IF childAgents(childId) = <<>>
       THEN /\ lastOp' = [op |-> "handleExternalChange", childId |-> childId]
            /\ UNCHANGED enforcerCalls
       ELSE /\ BagCardinality(enforcerCalls) < MaxEnforcerCalls
            /\ enforcerCalls' = enforcerCalls (+)
                  SetToBag({[agentId |-> Head(childAgents(childId)),
                             childId |-> childId, notified |-> TRUE]})
            /\ lastOp' = [op |-> "checkQuotaAwaits",
                          agentId |-> Head(childAgents(childId)), childId |-> childId]
    /\ UNCHANGED <<now, stateAgents, stateChildren, agentSideVars, trackerVars, warningStates,
                   warnCount, managerVars, quotaManagerVars>>

\* the loop's next iteration, once the check it awaited is done
ContinueStateChange ==
    /\ stateChange # NoStateChange
    /\ stateChange.rest # <<>>
    /\ ~\E call \in BagToSet(enforcerCalls) : call.notified
    /\ CheckQuotaFrom(Head(stateChange.rest), stateChange.childId, TRUE)
    /\ stateChange' = [stateChange EXCEPT !.rest = Tail(@)]

\* the enforcer's checks of one day, with the notifications
NextStateChange ==
    \/ \E a \in Agents : CheckQuota(a, stateAgents[a])
    \/ \E call \in BagToSet(enforcerCalls), al \in Allowances : CheckActivityReturns(call, al)
    \/ \E call \in BagToSet(enforcerCalls) : CheckActivityThrows(call)
    \/ \E d \in EnforcerSteps : AdvanceEnforcer(d)
    \/ \E c \in Children : StateChange(c)
    \/ \E c \in Children : HandleExternalChange(c)
    \/ ContinueStateChange

SpecStateChange == InitEnforcer /\ [][NextStateChange]_vars

\* C14 (as stated): a check made because the authority notified a state
\* change decides on an allowance obtained after the notification: the
\* allowance it used was put in the cache no earlier than the notification.
C14_NotifiedCheckUsesNewAllowance ==
    (/\ lastOp.op = "checkQuota"
     /\ lastOp.notified
     /\ lastOp.allowance # Failed)
        => quotaCache[lastOp.childId].timestamp >= stateChange.at


----------------------------------------------------------------------------
(* AgentBrowserManager and the plugin's handling of action responses.      *)
(* A triggerAction call is issued when the handler runs (the issued        *)
(* actions are the step's `emitted`, in order) and stays in managerCalls   *)
(* until the agent service resolves or rejects it.                         *)

MaxManagerCalls == 2
MaxViolations == 2
ViolationsCap == 100
ShutdownTimes == {60000, 120000}
ResponseActions == {"kill-browsers", "cancel-shutdown"}
ResponseStatuses == {"success", "error"}

nonManagerVars == <<now, stateAgents, stateChildren, agentSideVars, trackerVars, enforcerVars,
                    quotaManagerVars, stateChange>>

\* agentService.triggerAction(agentId, {actionId, ...}) as issued
TriggerAction(agentId, actionId) ==
    [type |-> "triggerAction", agentId |-> agentId, actionId |-> actionId]

ManagerCall(agentId, actionId) == [agentId |-> agentId, actionId |-> actionId]

RECURSIVE SeqToBag(_)
SeqToBag(seq) ==
    IF seq = <<>> THEN EmptyBag
    ELSE SetToBag({ManagerCall(Head(seq).agentId, Head(seq).actionId)})
            (+) SeqToBag(Tail(seq))

CancelIssuedAlways(agentId) == <<TriggerAction(agentId, "cancel-shutdown")>>

\* cancelScheduledShutdown up to its await: the actions it issues
CancelIssued(agentId) ==
    IF pendingShutdowns[agentId] = NoShutdown THEN <<>>
    ELSE <<TriggerAction(agentId, "cancel-shutdown")>>

\* the handler issues `actions` and awaits them
Issue(op, agentId, actions) ==
    /\ BagCardinality(managerCalls) + Len(actions) <= MaxManagerCalls
    /\ managerCalls' = managerCalls (+) SeqToBag(actions)
    /\ emitted' = actions
    /\ lastOp' = [op |-> op, agentId |-> agentId]

\* triggerKillBrowsers that leaves the schedule alone
TriggerKillBrowsersKeepsSchedule(agentId) ==
    /\ Issue("triggerKillBrowsers", agentId, <<TriggerAction(agentId, "kill-browsers")>>)
    /\ UNCHANGED <<pendingShutdowns, violations, nonManagerVars>>

\* triggerKillBrowsers up to its await: the schedule is cancelled, then the
\* kill is issued
TriggerKillBrowsers(agentId) ==
    /\ Issue("triggerKillBrowsers", agentId,
             CancelIssued(agentId) \o <<TriggerAction(agentId, "kill-browsers")>>)
    /\ pendingShutdowns' = [pendingShutdowns EXCEPT ![agentId] = NoShutdown]
    /\ UNCHANGED <<violations, nonManagerVars>>

\* scheduleShutdown up to its await
ScheduleShutdown(agentId, shutdownTime) ==
    /\ Issue("scheduleShutdown", agentId,
             CancelIssued(agentId) \o <<TriggerAction(agentId, "schedule-shutdown")>>)
    /\ pendingShutdowns' = [pendingShutdowns EXCEPT ![agentId] =
          [shutdownTime |-> shutdownTime, scheduledAt |-> now]]
    /\ UNCHANGED <<violations, nonManagerVars>>

\* cancelScheduledShutdown called on its own
CancelScheduledShutdown(agentId) ==
    /\ Issue("cancelScheduledShutdown", agentId, CancelIssued(agentId))
    /\ pendingShutdowns' = [pendingShutdowns EXCEPT ![agentId] = NoShutdown]
    /\ UNCHANGED <<violations, nonManagerVars>>

\* the agent service resolves or rejects a triggerAction call: a kill that
\* went through is logged, a failure is only reported on the console
TriggerActionReturns(call, ok) ==
    /\ managerCalls' = managerCalls (-) SetToBag({call})
    /\ emitted' = IF ok /\ call.actionId = "kill-browsers"
                  THEN <<[type |-> "logActivity", activity |-> "browser_kill-browsers",
                          agentId |-> call.agentId]>>
                  ELSE <<>>
    /\ lastOp' = [op |-> "triggerActionReturns", agentId |-> call.agentId,
                  actionId |-> call.actionId, ok |-> ok]
    /\ UNCHANGED <<pendingShutdowns, violations, nonManagerVars>>

\* the plugin's actionResponse listener: a successful kill is recorded as a
\* violation, reported to the renderer and logged
HandleActionResponse(agentId, actionId, status) ==
    /\ lastOp' = [op |-> "handleActionResponse", handler |-> "plugin",
                  agentId |-> agentId, actionId |-> actionId, status |-> status]
    /\ IF actionId = "kill-browsers" /\ status = "success"
       THEN /\ Len(violations) < MaxViolations
            /\ violations' = SubSeq(<<[agentId |-> agentId, timestamp |-> now]>> \o violations,
                                    1, Min({ViolationsCap, Len(violations) + 1}))
            /\ emitted' = <<[type |-> "browserViolation", agentId |-> agentId],
                            [type |-> "logActivity", activity |-> "browser_blocked",
                             agentId |-> agentId]>>
       ELSE /\ emitted' = <<>>
            /\ UNCHANGED violations
    /\ UNCHANGED <<pendingShutdowns, managerCalls, nonManagerVars>>

\* AgentBrowserManager.handleActionResponse: a kill-browsers response removes
\* the agent's pending shutdown
ManagerHandleActionResponse(agentId, actionId, status) ==
    /\ lastOp' = [op |-> "handleActionResponse", handler |-> "manager",
                  agentId |-> agentId, actionId |-> actionId, status |-> status]
    /\ pendingShutdowns' = IF actionId = "kill-browsers"
                           THEN [pendingShutdowns EXCEPT ![agentId] = NoShutdown]
                           ELSE pendingShutdowns
    /\ emitted' = <<>>
    /\ UNCHANGED <<managerCalls, violations, nonManagerVars>>

InitManager == InitEnforcer

NextManager ==
    \/ \E a \in Agents : TriggerKillBrowsers(a)
    \/ \E a \in Agents, t \in ShutdownTimes : ScheduleShutdown(a, t)
    \/ \E a \in Agents : CancelScheduledShutdown(a)
    \/ \E call \in BagToSet(managerCalls), ok \in BOOLEAN : TriggerActionReturns(call, ok)
    \/ \E a \in Agents, id \in ResponseActions, st \in ResponseStatuses :
          HandleActionResponse(a, id, st)
    \/ \E a \in Agents, id \in ResponseActions, st \in ResponseStatuses :
          ManagerHandleActionResponse(a, id, st)

SpecManager == InitManager /\ [][NextManager]_vars

\* C15: triggerKillBrowsers leaves the agent without a pending shutdown; when
\* there was one, cancel-shutdown is issued before kill-browsers; and neither
\* the success nor the failure of a remote call brings a pending shutdown back.
C15_KillCancelsSchedule ==
    [][/\ \A a \in Agents :
            (lastOp'.op = "triggerKillBrowsers" /\ lastOp'.agentId = a)
            => /\ pendingShutdowns'[a] = NoShutdown
               /\ emitted' = IF pendingShutdowns[a] # NoShutdown
                             THEN <<TriggerAction(a, "cancel-shutdown"),
                                    TriggerAction(a, "kill-browsers")>>
                             ELSE <<TriggerAction(a, "kill-browsers")>>
       /\ lastOp'.op = "triggerActionReturns"
            => pendingShutdowns' = pendingShutdowns]_vars

\* a kill was triggered for an agent that had a shutdown scheduled
C15_Witness ==
    /\ lastOp.op = "triggerKillBrowsers"
    /\ Len(emitted) = 2
    /\ pendingShutdowns[lastOp.agentId] = NoShutdown
    /\ \E a \in Agents : pendingShutdowns[a] # NoShutdown


\* the state an action response must leave alone: the agent table, the
\* children's usage, the open sessions and the warning flags
ResponseFrame ==
    /\ stateAgents' = stateAgents
    /\ stateChildren' = stateChildren
    /\ activeSessions' = activeSessions
    /\ warningStates' = warningStates

\* C16 (as stated): handling an action response leaves the agent table, the
\* children's usage, the open sessions and the warning flags unchanged, and
\* removes a pending shutdown only for a successful kill, and then only the
\* responding agent's.
C16_ResponseOnlyRecordsAndClears ==
    [][\A a \in Agents :
          (lastOp'.op = "handleActionResponse" /\ lastOp'.agentId = a)
          => /\ ResponseFrame
             /\ pendingShutdowns' # pendingShutdowns
                  => /\ lastOp'.actionId = "kill-browsers"
                     /\ lastOp'.status = "success"
                     /\ pendingShutdowns' = [pendingShutdowns EXCEPT ![a] = NoShutdown]]_vars


----------------------------------------------------------------------------
(* The manager's mirror of the pending shutdowns, with every method that   *)
(* touches it.                                                             *)

\* updateScheduledShutdown up to its await: nothing without a pending entry
UpdateScheduledShutdown(agentId, newShutdownTime) ==
    /\ IF pendingShutdowns[agentId] = NoShutdown
       THEN /\ Issue("updateScheduledShutdown", agentId, <<>>)
            /\ UNCHANGED pendingShutdowns
       ELSE /\ Issue("updateScheduledShutdown", agentId,
                     <<TriggerAction(agentId, "update-shutdown")>>)
            /\ pendingShutdowns' = [pendingShutdowns EXCEPT
                                       ![agentId].shutdownTime = newShutdownTime]
    /\ UNCHANGED <<violations, nonManagerVars>>

\* AgentBrowserManager.cleanup
ManagerCleanup ==
    /\ pendingShutdowns' = [a \in Agents |-> NoShutdown]
    /\ lastOp' = [op |-> "cleanup", agentId |-> "none"]
    /\ emitted' = <<>>
    /\ UNCHANGED <<managerCalls, violations, nonManagerVars>>

NextShutdowns ==
    \/ \E a \in Agents : TriggerKillBrowsers(a)
    \/ \E a \in Agents, t \in ShutdownTimes : ScheduleShutdown(a, t)
    \/ \E a \in Agents, t \in ShutdownTimes : UpdateScheduledShutdown(a, t)
    \/ \E a \in Agents : CancelScheduledShutdown(a)
    \/ \E call \in BagToSet(managerCalls), ok \in BOOLEAN : TriggerActionReturns(call, ok)
    \/ ManagerCleanup

SpecShutdowns == InitManager /\ [][NextShutdowns]_vars

\* the method `op` ran for agent a
Ran(op, a) == lastOp'.op = op /\ lastOp'.agentId = a

\* C34: the mirror holds at most one pending shutdown per agent.
\* scheduleShutdown leaves the agent with the new entry, having issued
\* cancel-shutdown before schedule-shutdown when there was an old one, and no
\* success or failure of a remote call changes the mirror;
\* updateScheduledShutdown and cancelScheduledShutdown for an agent with no
\* entry change nothing and issue nothing; cancelScheduledShutdown and
\* triggerKillBrowsers leave the agent, and cleanup every agent, with no entry.
C34_OnePendingShutdownPerAgent ==
    [][\A a \in Agents :
          /\ Ran("scheduleShutdown", a)
                => /\ \E t \in ShutdownTimes :
                         pendingShutdowns' = [pendingShutdowns EXCEPT ![a] =
                               [shutdownTime |-> t, scheduledAt |-> now]]
                   /\ emitted' = IF pendingShutdowns[a] # NoShutdown
                                 THEN <<TriggerAction(a, "cancel-shutdown"),
                                        TriggerAction(a, "schedule-shutdown")>>
                                 ELSE <<TriggerAction(a, "schedule-shutdown")>>
          /\ lastOp'.op = "triggerActionReturns" => pendingShutdowns' = pendingShutdowns
          /\ ( /\ Ran("updateScheduledShutdown", a) \/ Ran("cancelScheduledShutdown", a)
               /\ pendingShutdowns[a] = NoShutdown )
                => /\ pendingShutdowns' = pendingShutdowns
                   /\ managerCalls' = managerCalls
                   /\ emitted' = <<>>
          /\ Ran("cancelScheduledShutdown", a) \/ Ran("triggerKillBrowsers", a)
                => pendingShutdowns' = [pendingShutdowns EXCEPT ![a] = NoShutdown]
          /\ lastOp'.op = "cleanup" => pendingShutdowns'[a] = NoShutdown]_vars

\* an update was asked for an agent with nothing pending and did nothing,
\* while the other agent holds the entry of a schedule that replaced an
\* older one: its cancel-shutdown and schedule-shutdown are still awaited
C34_Witness ==
    /\ lastOp.op = "updateScheduledShutdown"
    /\ pendingShutdowns[lastOp.agentId] = NoShutdown
    /\ emitted = <<>>
    /\ \E a \in Agents :
          /\ pendingShutdowns[a] # NoShutdown
          /\ ManagerCall(a, "cancel-shutdown") \in BagToSet(managerCalls)
          /\ ManagerCall(a, "schedule-shutdown") \in BagToSet(managerCalls)


----------------------------------------------------------------------------
(* The daily reset with the tracker's accounting.  The plugin is loaded    *)
(* with a persisted state: c1 was reset today, c2 was last reset yesterday *)
(* and still carries yesterday's usage.                                    *)

InitDailyReset ==
    /\ stateAgents = [a \in Agents |-> IF a = "a1" THEN "c1" ELSE "c2"]
    /\ stateChildren = [c \in Children |->
          IF c = "c1" THEN [usageToday |-> 0, lastReset |-> 0]
          ELSE [usageToday |-> SecondsPerMinute, lastReset |-> 0 - MsPerDay]]
    /\ InitControllers


NextDailyReset ==
    \/ \E a \in Agents : RecordActivity(a, stateAgents[a])
    \/ \E d \in TrackerSteps : AdvanceTracker(d)
    \/ Midnight
    \/ CheckDailyReset

SpecDailyReset == InitDailyReset /\ [][NextDailyReset]_vars

\* C21: a daily-reset check zeroes usageToday, sets lastReset to now and
\* emits daily-reset once for exactly the children whose lastReset is before
\* today's midnight, and leaves every other child alone; after a check no
\* child is left to reset, and a check that follows a check at the same time
\* changes nothing and emits nothing.
C21_DailyResetOncePerDay ==
    /\ [](lastOp.op = "checkDailyReset" =>
            \A c \in Children :
               stateChildren[c] # NoChild =>
                  stateChildren[c].lastReset >= (now \div MsPerDay) * MsPerDay)
    /\ [][lastOp'.op = "checkDailyReset" =>
            /\ \A c \in Children :
                  LET resets == Cardinality({i \in DOMAIN emitted' :
                                     /\ emitted'[i].type = "daily-reset"
                                     /\ emitted'[i].childId = c})
                  IN IF /\ stateChildren[c] # NoChild
                        /\ stateChildren[c].lastReset < (now \div MsPerDay) * MsPerDay
                     THEN /\ stateChildren'[c] = [usageToday |-> 0, lastReset |-> now]
                          /\ resets = 1
                     ELSE /\ stateChildren'[c] = stateChildren[c]
                          /\ resets = 0
            /\ lastOp.op = "checkDailyReset"
                  => stateChildren' = stateChildren /\ emitted' = <<>>]_vars

\* a check reset one child, which had usage, and left alone the other, which
\* has usage of today
C21_Witness ==
    /\ lastOp.op = "checkDailyReset"
    /\ Len(emitted) = 1
    /\ stateChildren[emitted[1].childId] = [usageToday |-> 0, lastReset |-> now]
    /\ \E c \in Children :
          /\ stateChildren[c] # NoChild
          /\ stateChildren[c].lastReset < now
          /\ stateChildren[c].usageToday > 0


----------------------------------------------------------------------------
(* WebsiteClassifier (src/unnamed/part_002).  A domain is the sequence of  *)
(* its labels, "sub.youtube.com" being <<"sub", "youtube", "com">>, and    *)
(* the empty string is <<>>.  The keywords of matchPattern hold no dot, so *)
(* one occurs in a domain exactly when it occurs in one of its labels.     *)
(* A confidence is in tenths.  An input of classify is null, empty, blank  *)
(* or a text: an optional scheme "https://", an optional "www.", a host,   *)
(* an optional path.  All texts are in lower case.                         *)

cacheMaxSize == 1000
EvictBatch == 100
\* the classifier serves this many calls
MaxClassifierOps == 4

NoDomain == <<>>
NoResult == [none |-> "result"]
TypeError == [error |-> "TypeError"]
Undefined == "undefined"
\* a property the static table inherits from Object.prototype: a function
\* or an object, not a category name
InheritedProperty == "[inherited]"

YouTube == <<"youtube", "com">>
\* CategoryPatterns.getDomainCategoryMap(), the entries under youtube.com
StaticDomains == (YouTube :> "video") @@ (<<"music", "youtube", "com">> :> "music")
\* the names Object.prototype defines that are in lower case
ObjectPrototypeKeys == {<<"constructor">>, <<"__proto__">>}

domainCategoryMap(domain) ==
    IF domain \in DOMAIN StaticDomains THEN StaticDomains[domain]
    ELSE IF domain \in ObjectPrototypeKeys THEN InheritedProperty
    ELSE Undefined

TextInput(scheme, www, host, path) ==
    [kind |-> "text", scheme |-> scheme, www |-> www, host |-> host, path |-> path]
NullInput == [kind |-> "null", scheme |-> FALSE, www |-> FALSE, host |-> NoDomain, path |-> FALSE]
EmptyInput == [kind |-> "empty", scheme |-> FALSE, www |-> FALSE, host |-> NoDomain, path |-> FALSE]
BlankInput == [kind |-> "blank", scheme |-> FALSE, www |-> FALSE, host |-> NoDomain, path |-> FALSE]
Bare(host) == TextInput(FALSE, FALSE, host, FALSE)

\* !urlOrDomain
Falsy(input) == input.kind \in {"null", "empty"}

\* WebsiteClassifier.extractDomain: the hostname of a URL keeps its "www.",
\* a text without a scheme loses it; a URL without a host does not parse
\* and is cleaned by hand, to the empty string, which is returned as null
extractDomain(input) ==
    IF input.kind # "text" THEN NoDomain
    ELSE IF input.scheme
         THEN IF input.host = NoDomain THEN NoDomain
              ELSE (IF input.www THEN <<"www">> ELSE <<>>) \o input.host
         ELSE input.host

getParentDomain(domain) ==
    IF Len(domain) > 2 THEN Tail(domain) ELSE NoDomain

\* CategoryPatterns.getCategoryInfo reads categoryId.charAt for a category
\* that is not a key of the patterns: a TypeError unless it is a string
createResult(category, confidence) ==
    IF category = InheritedProperty THEN TypeError
    ELSE [category |-> category, confidence |-> confidence,
          isRestricted |-> category \in {"adult", "gambling"}]

matchDomain(domain) ==
    LET category == domainCategoryMap(domain)
    IN  IF category # Undefined THEN createResult(category, 10) ELSE NoResult

\* the keywords of matchPattern that occur in a label
KeywordsIn(label) ==
    CASE label = "mygames" -> {"game"}
      [] label = "dailynews" -> {"daily", "news"}
      [] label = "chatroom" -> {"chat"}
      [] label = "watchshop" -> {"watch", "shop"}
      [] OTHER -> {}

matchPattern(domain) ==
    LET kw == UNION {KeywordsIn(domain[i]) : i \in 1..Len(domain)}
        endsWith(tld) == Len(domain) >= 2 /\ domain[Len(domain)] = tld
    IN  IF kw \cap {"game", "play", "arcade"} # {} \/ endsWith("gg")
        THEN createResult("gaming", 7)
        ELSE IF endsWith("edu") \/ kw \cap {"learn", "course", "school", "academy"} # {}
        THEN createResult("education", 7)
        ELSE IF kw \cap {"news", "daily", "times", "post", "herald", "tribune"} # {}
        THEN createResult("news", 6)
        ELSE IF kw \cap {"shop", "store", "buy", "market"} # {}
        THEN createResult("shopping", 6)
        ELSE IF kw \cap {"video", "stream", "watch", "tv"} # {}
        THEN createResult("video", 6)
        ELSE IF kw \cap {"social", "chat", "forum", "community"} # {}
        THEN createResult("social", 5)
        ELSE NoResult

\* Map.has, Map.get, Map.delete and Map.set on a cache
cacheHas(c, domain) == \E i \in 1..Len(c) : c[i].domain = domain
cacheGet(c, domain) == c[CHOOSE i \in 1..Len(c) : c[i].domain = domain].result
cacheDeleteNothing(c, domain) == c
cacheDelete(c, domain) == SelectSeq(c, LAMBDA e : e.domain # domain)
cacheSet(c, domain, result) ==
    IF cacheHas(c, domain)
    THEN [i \in 1..Len(c) |-> IF c[i].domain = domain
                              THEN [domain |-> domain, result |-> result] ELSE c[i]]
    ELSE Append(c, [domain |-> domain, result |-> result])

addToCacheEvictsWhenOver(c, domain, result) ==
    cacheSet(IF Len(c) > cacheMaxSize THEN SubSeq(c, EvictBatch + 1, Len(c)) ELSE c,
             domain, result)

addToCache(c, domain, result) ==
    cacheSet(IF Len(c) >= cacheMaxSize THEN SubSeq(c, EvictBatch + 1, Len(c)) ELSE c,
             domain, result)

\* the static table and the heuristics, part_002 lines 63-81
matchStatic(domain) ==
    LET exact == matchDomain(domain)
        parentDomain == getParentDomain(domain)
        parent == IF exact = NoResult /\ parentDomain # NoDomain
                  THEN matchDomain(parentDomain) ELSE exact
        pattern == IF parent = NoResult THEN matchPattern(domain) ELSE parent
    IN  IF pattern = NoResult THEN createResult("other", 0) ELSE pattern

\* WebsiteClassifier.classify: what it returns and the cache it leaves
classify(input) ==
    LET domain == extractDomain(input)
    IN  IF Falsy(input) \/ domain = NoDomain
        THEN [result |-> createResult("other", 0), cache |-> cache]
        ELSE IF cacheHas(cache, domain)
        THEN [result |-> cacheGet(cache, domain), cache |-> cache]
        ELSE LET result == IF domain \in DOMAIN customRules
                           THEN createResult(customRules[domain], 10)
                           ELSE matchStatic(domain)
             IN  IF result = TypeError
                 THEN [result |-> TypeError, cache |-> cache]
                 ELSE [result |-> result, cache |-> addToCache(cache, domain, result)]


nonClassifierVars == <<now, stateAgents, stateChildren, trackerVars, enforcerVars,
                       managerVars, quotaManagerVars, stateChange, detectorVars>>

\* the inputs the classifier is called with
ClassifierInputs ==
    { NullInput, EmptyInput, BlankInput,
      TextInput(TRUE, FALSE, NoDomain, FALSE),            \* "https://"
      TextInput(TRUE, TRUE, YouTube, TRUE),               \* "https://www.youtube.com/watch?v=x"
      TextInput(FALSE, TRUE, YouTube, TRUE),              \* "www.youtube.com/watch"
      Bare(YouTube),
      Bare(<<"sub", "sub", "youtube", "com">>),
      Bare(<<"weirddomain", "xyz">>),
      Bare(<<"mygames", "net">>),
      Bare(<<"dailynews", "com">>),
      Bare(<<"watchshop", "com">>),
      Bare(<<"chatroom", "org">>),
      Bare(<<"constructor">>) }
\* the domains and categories custom rules are written for
RuleInputs == { Bare(YouTube), Bare(<<"weirddomain", "xyz">>), EmptyInput }
RuleCategories == { "social", "adult" }

Classify(input) ==
    /\ classifierOps < MaxClassifierOps
    /\ classifierOps' = classifierOps + 1
    /\ cache' = classify(input).cache
    /\ lastOp' = [op |-> "classify", input |-> input,
                  result |-> classify(input).result,
                  cached |-> cacheHas(cache, extractDomain(input))]
    /\ emitted' = <<>>
    /\ UNCHANGED <<customRules, nonClassifierVars>>

AddCustomRule(input, category) ==
    LET cleanDomain == extractDomain(input)
    IN  /\ classifierOps < MaxClassifierOps
        /\ classifierOps' = classifierOps + 1
        /\ IF cleanDomain # NoDomain
           THEN /\ customRules' = (cleanDomain :> category) @@ customRules
                /\ cache' = cacheDelete(cache, cleanDomain)
           ELSE UNCHANGED <<customRules, cache>>
        /\ lastOp' = [op |-> "addCustomRule", input |-> input, category |-> category]
        /\ emitted' = <<>>
        /\ UNCHANGED nonClassifierVars

\* removeCustomRule without its cache.delete
RemoveCustomRuleKeepsCache(input) ==
    LET cleanDomain == extractDomain(input)
    IN  /\ classifierOps < MaxClassifierOps
        /\ classifierOps' = classifierOps + 1
        /\ IF cleanDomain # NoDomain
           THEN customRules' = [d \in DOMAIN customRules \ {cleanDomain} |-> customRules[d]]
           ELSE UNCHANGED customRules
        /\ lastOp' = [op |-> "removeCustomRule", input |-> input]
        /\ emitted' = <<>>
        /\ UNCHANGED <<cache, nonClassifierVars>>

RemoveCustomRule(input) ==
    LET cleanDomain == extractDomain(input)
    IN  /\ classifierOps < MaxClassifierOps
        /\ classifierOps' = classifierOps + 1
        /\ IF cleanDomain # NoDomain
           THEN /\ customRules' = [d \in DOMAIN customRules \ {cleanDomain} |-> customRules[d]]
                /\ cache' = cacheDelete(cache, cleanDomain)
           ELSE UNCHANGED <<customRules, cache>>
        /\ lastOp' = [op |-> "removeCustomRule", input |-> input]
        /\ emitted' = <<>>
        /\ UNCHANGED nonClassifierVars

ClearCache ==
    /\ classifierOps < MaxClassifierOps
    /\ classifierOps' = classifierOps + 1
    /\ cache' = <<>>
    /\ lastOp' = [op |-> "clearCache"]
    /\ emitted' = <<>>
    /\ UNCHANGED <<customRules, nonClassifierVars>>

InitWebsiteClassifier ==
    /\ stateAgents = [a \in Agents |-> "c1"]
    /\ stateChildren = [c \in Children |-> NoChild]
    /\ InitControllers

NextClassifier ==
    \/ \E input \in ClassifierInputs : Classify(input)
    \/ \E input \in RuleInputs, category \in RuleCategories : AddCustomRule(input, category)
    \/ \E input \in RuleInputs : RemoveCustomRule(input)
    \/ ClearCache

SpecClassifier == InitWebsiteClassifier /\ [][NextClassifier]_vars


----------------------------------------------------------------------------
(* Claims on the classifier *)

\* what classify is to return for a domain under the rules in force
Expected(domain) ==
    IF domain \in DOMAIN customRules
    THEN createResult(customRules[domain], 10)
    ELSE matchStatic(domain)

ClassifyStep(input) ==
    /\ classifierOps' = classifierOps + 1
    /\ lastOp'.op = "classify"
    /\ lastOp'.input = input

\* C22: whatever calls of classify, addCustomRule, removeCustomRule and
\* clearCache came before, classify of a domain that has a custom rule
\* returns the rule's category with confidence 1.0, also for a domain of the
\* static table and for one classified and cached before the rule was
\* added; for a domain without a rule (never given one, or its rule
\* removed) it returns what the static table and the heuristics give.
C22_CustomRuleWins ==
    [][\A input \in ClassifierInputs :
          ClassifyStep(input) /\ extractDomain(input) # NoDomain
          => lastOp'.result = Expected(extractDomain(input))]_vars

\* classify("youtube.com") answered from the rule "social" although the static
\* table says video
C22_Witness ==
    /\ lastOp.op = "classify"
    /\ lastOp.input = Bare(YouTube)
    /\ YouTube \in DOMAIN customRules
    /\ customRules[YouTube] = "social"
    /\ lastOp.result = createResult("social", 10)
    /\ matchStatic(YouTube) = createResult("video", 10)
    /\ classifierOps >= 3

\* C23: with youtube.com in the static table and neither sub.youtube.com
\* nor sub.sub.youtube.com in it (nor in the custom rules), classify of
\* sub.sub.youtube.com gives category video with confidence 1.0.
C23_SubSubMatchesYouTube ==
    ( /\ lastOp.op = "classify"
      /\ lastOp.input = Bare(<<"sub", "sub", "youtube", "com">>) )
    => lastOp.result = createResult("video", 10)


----------------------------------------------------------------------------
(* The classifier with a cache near its cap.  The sites are the domains    *)
(* "0.0.0.1.xyz", "0.0.0.2.xyz", ...: in no table, with no keyword.  The   *)
(* classifier has classified the first n of them, in order.                *)

Digit(n) == <<"0", "1", "2", "3", "4", "5", "6", "7", "8", "9">>[(n % 10) + 1]
Site(i) == <<Digit(i \div 1000), Digit(i \div 100), Digit(i \div 10), Digit(i), "xyz">>
CacheFills == {0, cacheMaxSize - EvictBatch, cacheMaxSize - 1, cacheMaxSize}
\* the sites classified next: an old one, the one of the custom rule and
\* new ones
SiteChoices == {1, EvictBatch + 1, cacheMaxSize + 1, cacheMaxSize + 2, cacheMaxSize + 3}
RuleSite == Site(EvictBatch + 1)

InitCache ==
    /\ stateAgents = [a \in Agents |-> "c1"]
    /\ stateChildren = [c \in Children |-> NoChild]
    /\ InitParentSide
    /\ InitDetectors
    /\ customRules = <<>>
    /\ classifierOps = 0
    /\ \E n \in CacheFills :
          cache = [i \in 1..n |-> [domain |-> Site(i), result |-> createResult("other", 0)]]

NextCache ==
    \/ \E i \in SiteChoices : Classify(Bare(Site(i)))
    \/ AddCustomRule(Bare(RuleSite), "social")
    \/ RemoveCustomRule(Bare(RuleSite))
    \/ ClearCache

SpecCache == InitCache /\ [][NextCache]_vars

Inserted(input) ==
    /\ ClassifyStep(input)
    /\ ~lastOp'.cached
    /\ extractDomain(input) # NoDomain

\* C24: the cache never holds more than cacheMaxSize entries; a classify
\* that inserts into a full cache removes exactly the EvictBatch entries
\* inserted first and appends its own entry after all those that stay; one
\* that inserts into a cache that is not full removes nothing; a custom-rule
\* call removes at most the entry of its own domain.
C24_CacheBounded ==
    /\ [](Len(cache) <= cacheMaxSize)
    /\ [][/\ \A i \in SiteChoices :
                Inserted(Bare(Site(i)))
                => LET entry == [domain |-> Site(i), result |-> lastOp'.result]
                   IN  cache' = Append(IF Len(cache) = cacheMaxSize
                                       THEN SubSeq(cache, EvictBatch + 1, Len(cache))
                                       ELSE cache, entry)
          /\ ( classifierOps' = classifierOps + 1
               /\ lastOp'.op \in {"addCustomRule", "removeCustomRule"} )
             => cache' = SelectSeq(cache, LAMBDA e : e.domain # RuleSite)
       ]_vars

\* a classify has found the cache full: the first EvictBatch sites are gone,
\* the site classified is the newest entry
C24_Witness ==
    /\ lastOp.op = "classify"
    /\ ~lastOp.cached
    /\ Len(cache) = cacheMaxSize - EvictBatch + 1
    /\ cache[1].domain = Site(EvictBatch + 1)
    /\ cache[Len(cache)].domain = Site(cacheMaxSize + 1)


\* classify on a classifier that keeps no cache: part_002 lines 39-85 less
\* the lines 51-54, 59 and 83
classifyUncached(input) ==
    IF Falsy(input) \/ extractDomain(input) = NoDomain
    THEN createResult("other", 0)
    ELSE Expected(extractDomain(input))

\* C35: after any calls of classify, addCustomRule, removeCustomRule and
\* clearCache, and any evictions, classify has returned what a classifier
\* without a cache returns for the input under the rules in force, and every
\* entry of the cache holds what that classifier returns for its domain.
C35_CacheIsTransparent ==
    /\ lastOp.op = "classify" => lastOp.result = classifyUncached(lastOp.input)
    /\ \A i \in 1..Len(cache) : cache[i].result = Expected(cache[i].domain)

\* the site of the custom rule was classified and cached under its rule, a
\* new site then found the cache full and evicted the oldest entries, and
\* the rule's site was answered from the cache
C35_Witness ==
    /\ lastOp.op = "classify"
    /\ lastOp.input = Bare(RuleSite)
    /\ lastOp.cached
    /\ lastOp.result = createResult("social", 10)
    /\ Len(cache) = cacheMaxSize - EvictBatch + 1
    /\ ~cacheHas(cache, Site(1))
    /\ cacheHas(cache, Site(cacheMaxSize + 1))


\* the domain, or the domain one label up, is an own entry of the static table
InStaticTable(domain) ==
    \/ domain \in DOMAIN StaticDomains
    \/ getParentDomain(domain) \in DOMAIN StaticDomains

\* C25: classify never fails.  It returns a result for every input; other
\* with confidence 0 for a null, empty or blank input and for a domain with
\* no custom rule, no entry of the static table (exact or parent) and no
\* heuristic; video with confidence 1.0 for
\* "https://www.youtube.com/watch?v=x" and other with confidence 0 for
\* "weirddomain.xyz" while they have no custom rule; confidence 1.0 exactly
\* for the domains with a custom rule or a static entry, and 0.5 to 0.7 for
\* the heuristic matches.
C25_ClassifyNeverFails ==
    lastOp.op = "classify" =>
       LET input == lastOp.input
           domain == extractDomain(input)
           result == lastOp.result
           ruled == domain \in DOMAIN customRules
           heuristic == matchPattern(domain) # NoResult
       IN  /\ result # TypeError
           /\ domain = NoDomain => result = createResult("other", 0)
           /\ ( domain # NoDomain /\ ~ruled /\ ~InStaticTable(domain) /\ ~heuristic )
              => result = createResult("other", 0)
           /\ ( input = TextInput(TRUE, TRUE, YouTube, TRUE) /\ ~ruled )
              => result = createResult("video", 10)
           /\ ( input = Bare(<<"weirddomain", "xyz">>) /\ ~ruled )
              => result = createResult("other", 0)
           /\ domain # NoDomain
              => ( result.confidence = 10 <=> (ruled \/ InStaticTable(domain)) )
           /\ ( domain # NoDomain /\ ~ruled /\ ~InStaticTable(domain) /\ heuristic )
              => result.confidence \in 5..7


----------------------------------------------------------------------------
(* ProcessLevelDetector (src/unnamed/part_006, 1-343).  start() and        *)
(* scanBrowsers() await getProcessList(): the part of a scan after the     *)
(* await is one action, taken with the list the process monitor answers    *)
(* (or with its failure), and a start() goes on to create its timer when   *)
(* its first scan is over.  activeBrowsers is the sequence of the keys of  *)
(* the Map, in insertion order.                                            *)

\* timers and starts of the process detector that may be live at once
MaxTimers == 2
\* timer scans that may await the process monitor at once
MaxScans == 1

Null == "null"
ChromeProcess == [pid |-> 1, name |-> "chrome.exe", path |-> "/usr/bin/chrome"]
FirefoxProcess == [pid |-> 2, name |-> "firefox", path |-> ""]
\* a helper that only its path tells to be a browser's; it has taken pid 1
HelperProcess == [pid |-> 1, name |-> "crashpad_handler", path |-> "/opt/firefox/crashpad_handler"]
NotepadProcess == [pid |-> 3, name |-> "notepad.exe", path |-> "/usr/bin/notepad"]
NamelessProcess == [pid |-> 2, name |-> "", path |-> "/usr/bin/chrome"]

\* BrowserPatterns.getBrowserName: the browser whose pattern the text holds
getBrowserName(text) ==
    CASE text \in {"chrome.exe", "/usr/bin/chrome"} -> "chrome"
      [] text \in {"firefox", "/opt/firefox/crashpad_handler"} -> "firefox"
      [] OTHER -> Null

\* ProcessLevelDetector.identifyBrowser: the browser's name, or Null
identifyBrowser(proc) ==
    IF proc.name = "" THEN Null
    ELSE IF getBrowserName(proc.name) # Null THEN getBrowserName(proc.name)
    ELSE IF proc.path # "" THEN getBrowserName(proc.path)
    ELSE Null

NewProcessDetector ==
    [isRunning |-> FALSE, scanInterval |-> FALSE, timers |-> 0,
     activeBrowsers |-> <<>>, starting |-> 0, scans |-> 0,
     listeners |-> [event \in {"browser-started", "browser-stopped"} |-> <<>>]]

Started(pid) == [event |-> "browser-started", pid |-> pid]
Stopped(pid) == [event |-> "browser-stopped", pid |-> pid]
BrowsersUpdate(active) == [event |-> "browsers-update", count |-> Len(active)]

\* the first loop of scanBrowsers over the process list
RECURSIVE ScanStarted(_, _)
ScanStarted(active, processes) ==
    IF processes = <<>> THEN [activeBrowsers |-> active, events |-> <<>>]
    ELSE LET proc == Head(processes)
             isNew == /\ identifyBrowser(proc) # Null
                      /\ proc.pid \notin SeqRange(active)
             rest == ScanStarted(IF isNew THEN Append(active, proc.pid) ELSE active,
                                 Tail(processes))
         IN  [activeBrowsers |-> rest.activeBrowsers,
              events |-> (IF isNew THEN <<Started(proc.pid)>> ELSE <<>>) \o rest.events]

currentBrowserPids(processes) ==
    {processes[i].pid : i \in {j \in 1..Len(processes) : identifyBrowser(processes[j]) # Null}}

scanBrowsersKeepsGone(active, processes) ==
    LET started == ScanStarted(active, processes)
        current == currentBrowserPids(processes)
        gone == SelectSeq(started.activeBrowsers, LAMBDA pid : pid \notin current)
    IN  [activeBrowsers |-> started.activeBrowsers,
         events |-> started.events \o [i \in 1..Len(gone) |-> Stopped(gone[i])]
                    \o <<BrowsersUpdate(started.activeBrowsers)>>]

\* ProcessLevelDetector.scanBrowsers after its await: the active browsers
\* it leaves and the events it emits
scanBrowsers(active, processes) ==
    LET started == ScanStarted(active, processes)
        current == currentBrowserPids(processes)
        kept == SelectSeq(started.activeBrowsers, LAMBDA pid : pid \in current)
        gone == SelectSeq(started.activeBrowsers, LAMBDA pid : pid \notin current)
    IN  [activeBrowsers |-> kept,
         events |-> started.events \o [i \in 1..Len(gone) |-> Stopped(gone[i])]
                    \o <<BrowsersUpdate(kept)>>]


\* ProcessLevelDetector.start before its await; the detector unchanged if
\* it is running
processStart(d) ==
    IF d.isRunning THEN d
    ELSE [d EXCEPT !.isRunning = TRUE, !.starting = @ + 1]

\* the model lets a start() begin while fewer than MaxTimers timers and
\* starts are live
MayStart(d) == d.isRunning \/ d.timers + d.starting < MaxTimers

\* ProcessLevelDetector.stop: the detector it leaves and the events it emits
processStop(d) ==
    IF ~d.isRunning THEN [detector |-> d, events |-> <<>>]
    ELSE [detector |-> [d EXCEPT !.isRunning = FALSE,
                                 !.scanInterval = FALSE,
                                 !.timers = IF d.scanInterval THEN @ - 1 ELSE @,
                                 !.activeBrowsers = <<>>],
          events |-> [i \in 1..Len(d.activeBrowsers) |-> Stopped(d.activeBrowsers[i])]]

\* the last browser-started or browser-stopped event of each PID
LastEventAfter(events) ==
    [pid \in Pids |->
        LET mine == SelectSeq(events, LAMBDA e :
                        /\ e.event \in {"browser-started", "browser-stopped"}
                        /\ e.pid = pid)
        IN  IF mine = <<>> THEN lastEvent[pid] ELSE mine[Len(mine)].event]

\* what getProcessList() answers: a process list, or a failure
Answer(processes) == [failed |-> FALSE, processes |-> processes]
Failure == [failed |-> TRUE, processes |-> <<>>]
ProcessLists ==
    { <<>>, <<ChromeProcess>>, <<FirefoxProcess>>, <<NotepadProcess>>,
      <<FirefoxProcess, ChromeProcess, NotepadProcess>>,
      <<ChromeProcess, NamelessProcess>>, <<HelperProcess>> }
Answers == {Answer(processes) : processes \in ProcessLists} \cup {Failure}

\* the scan of an answer: a failure is logged and changes nothing
Scanned(d, answer) ==
    IF answer.failed THEN [activeBrowsers |-> d.activeBrowsers, events |-> <<>>]
    ELSE scanBrowsers(d.activeBrowsers, answer.processes)

nonDetectorVars == <<now, stateAgents, stateChildren, trackerVars, enforcerVars,
                     managerVars, quotaManagerVars, stateChange, classifierVars>>

ProcessStart ==
    /\ processDetector # NoDetector
    /\ MayStart(processDetector)
    /\ processDetector' = processStart(processDetector)
    /\ lastOp' = [op |-> "start", detector |-> "basic"]
    /\ emitted' = <<>>
    /\ UNCHANGED <<factory, extensionDetector, lastEvent, nonDetectorVars>>

\* the first scan of a start() is over: the list is scanned and the timer set
ProcessStartContinues(answer) ==
    /\ processDetector # NoDetector
    /\ processDetector.starting > 0
    /\ LET scanned == Scanned(processDetector, answer)
       IN  /\ processDetector' = [processDetector EXCEPT
                                     !.activeBrowsers = scanned.activeBrowsers,
                                     !.starting = @ - 1,
                                     !.scanInterval = TRUE,
                                     !.timers = @ + 1]
           /\ emitted' = scanned.events
           /\ lastEvent' = LastEventAfter(scanned.events)
    /\ lastOp' = [op |-> "scan", answer |-> answer, before |-> processDetector.activeBrowsers]
    /\ UNCHANGED <<factory, extensionDetector, nonDetectorVars>>

\* a scan timer fires: scanBrowsers() up to its await
ScanTick ==
    /\ processDetector # NoDetector
    /\ processDetector.timers > 0
    /\ processDetector.scans < MaxScans
    /\ processDetector' = [processDetector EXCEPT !.scans = @ + 1]
    /\ lastOp' = [op |-> "tick", detector |-> "basic"]
    /\ emitted' = <<>>
    /\ UNCHANGED <<factory, extensionDetector, lastEvent, nonDetectorVars>>

\* scanBrowsers() called on the detector itself, up to its await
ScanCall ==
    /\ processDetector # NoDetector
    /\ processDetector.scans < MaxScans
    /\ processDetector' = [processDetector EXCEPT !.scans = @ + 1]
    /\ lastOp' = [op |-> "scanBrowsers", detector |-> "basic"]
    /\ emitted' = <<>>
    /\ UNCHANGED <<factory, extensionDetector, lastEvent, nonDetectorVars>>

ScanReturns(answer) ==
    /\ processDetector # NoDetector
    /\ processDetector.scans > 0
    /\ LET scanned == Scanned(processDetector, answer)
       IN  /\ processDetector' = [processDetector EXCEPT
                                     !.activeBrowsers = scanned.activeBrowsers,
                                     !.scans = @ - 1]
           /\ emitted' = scanned.events
           /\ lastEvent' = LastEventAfter(scanned.events)
    /\ lastOp' = [op |-> "scan", answer |-> answer, before |-> processDetector.activeBrowsers]
    /\ UNCHANGED <<factory, extensionDetector, nonDetectorVars>>

ProcessStop ==
    /\ processDetector # NoDetector
    /\ LET stopped == processStop(processDetector)
       IN  /\ processDetector' = stopped.detector
           /\ emitted' = stopped.events
           /\ lastEvent' = LastEventAfter(stopped.events)
    /\ lastOp' = [op |-> "stop", detector |-> "basic", before |-> processDetector.activeBrowsers]
    /\ UNCHANGED <<factory, extensionDetector, nonDetectorVars>>

\* new ProcessLevelDetector(context), on its own
InitProcessDetector ==
    /\ stateAgents = [a \in Agents |-> "c1"]
    /\ stateChildren = [c \in Children |-> NoChild]
    /\ InitParentSide
    /\ InitClassifier
    /\ factory = [mode |-> "auto", activeDetector |-> Null]
    /\ processDetector = NewProcessDetector
    /\ extensionDetector = NoDetector
    /\ lastEvent = [pid \in Pids |-> "none"]

NextProcessDetector ==
    \/ ProcessStart
    \/ \E answer \in Answers : ProcessStartContinues(answer)
    \/ ScanTick
    \/ ScanCall
    \/ \E answer \in Answers : ScanReturns(answer)
    \/ ProcessStop

SpecProcessDetector == InitProcessDetector /\ [][NextProcessDetector]_vars


----------------------------------------------------------------------------
(* Claims on the process detector *)

Count(events, e) == Cardinality({i \in 1..Len(events) : events[i] = e})

\* a scan of the process list `processes` with `before` the active set: a
\* PID is started exactly if a process identified as a browser carries it
\* and it is not active, stopped exactly if it is active and no such
\* process carries it
ScanDiffs(processes, before) ==
    LET current == currentBrowserPids(processes)
    IN  \A pid \in Pids :
           /\ Count(emitted', Started(pid))
                 = IF pid \in current /\ pid \notin SeqRange(before) THEN 1 ELSE 0
           /\ Count(emitted', Stopped(pid))
                 = IF pid \in SeqRange(before) /\ pid \notin current THEN 1 ELSE 0

\* the two events of a PID alternate, browser-started first
Alternates ==
    \A pid \in Pids :
       /\ Count(emitted', Started(pid)) + Count(emitted', Stopped(pid)) <= 1
       /\ Count(emitted', Started(pid)) = 1 => lastEvent[pid] # "browser-started"
       /\ Count(emitted', Stopped(pid)) = 1 => lastEvent[pid] = "browser-started"

ScanStep == lastOp'.op = "scan" /\ processDetector' # processDetector
StopStep == lastOp'.op = "stop" /\ lastOp'.detector = "basic"

\* the active set is the set of the PIDs started and not stopped since
ActiveAreStarted ==
    processDetector # NoDetector
    => SeqRange(processDetector.activeBrowsers)
          = {pid \in Pids : lastEvent[pid] = "browser-started"}

C30_Scans ==
    /\ Alternates
    /\ \A answer \in Answers :
          (lastOp'.op = "scan" /\ lastOp'.answer = answer /\ ~answer.failed)
          => ScanDiffs(answer.processes, processDetector.activeBrowsers)

StopEmitsAll ==
    /\ emitted' = [i \in 1..Len(processDetector.activeBrowsers) |->
                      Stopped(processDetector.activeBrowsers[i])]
    /\ processDetector'.activeBrowsers = <<>>

\* C30 as stated: every scan emits browser-started exactly for the browser
\* PIDs that are not active and browser-stopped exactly for the active PIDs
\* the list lacks, the events of a PID alternate, the active set is the
\* PIDs started and not stopped, a process that is no browser has no event,
\* and every stop() emits browser-stopped for each active PID and empties
\* the set.
C30_StopAlwaysEmptiesActiveSet ==
    /\ []ActiveAreStarted
    /\ [][C30_Scans /\ (StopStep => StopEmitsAll)]_vars

\* C30, amended: the same, with stop() emitting browser-stopped for each
\* active PID and emptying the set when the detector is running, and
\* emitting nothing and leaving the set as it is when it is not.
C30_ScanDiffsActiveSet ==
    /\ []ActiveAreStarted
    /\ [][/\ C30_Scans
          /\ StopStep => IF processDetector.isRunning THEN StopEmitsAll
                         ELSE emitted' = <<>> /\ processDetector' = processDetector
       ]_vars

\* a scan of a list with the tracked browser, a new one and a process that
\* is no browser has started the new PID and nothing else
C30_Witness ==
    /\ lastOp.op = "scan"
    /\ lastOp.answer = Answer(<<FirefoxProcess, ChromeProcess, NotepadProcess>>)
    /\ lastOp.before = <<1>>
    /\ emitted = <<Started(2), BrowsersUpdate(<<1, 2>>)>>
    /\ lastEvent = [pid \in Pids |-> IF pid = 3 THEN "none" ELSE "browser-started"]


\* the detector driven by start() and stop() alone: every scan is the first
\* scan of a start() or the scan of a timer tick
NextLifecycle ==
    \/ ProcessStart
    \/ \E answer \in Answers : ProcessStartContinues(answer)
    \/ ScanTick
    \/ \E answer \in Answers : ScanReturns(answer)
    \/ ProcessStop

SpecLifecycle == InitProcessDetector /\ [][NextLifecycle]_vars

BrowserEvents(events) ==
    SelectSeq(events, LAMBDA e : e.event \in {"browser-started", "browser-stopped"})

\* C31: in every interleaving of start(), stop() and scans awaiting the
\* process list, at most one scan timer exists, and while the detector is
\* stopped (stop() has completed and start() was not called since, or it was
\* never started) no scan timer exists, the active set is empty and no
\* browser-started or browser-stopped event is emitted.
C31_StopLeavesNothingBehind ==
    /\ [](processDetector.timers <= 1)
    /\ [](~processDetector.isRunning
            => processDetector.timers = 0 /\ processDetector.activeBrowsers = <<>>)
    /\ [][~processDetector.isRunning => BrowserEvents(emitted') = <<>>]_vars


----------------------------------------------------------------------------
(* The listeners of the process detector (src/unnamed/part_006, 276-319).  *)
(* listeners[event] is the array of the callbacks of the event.  emit      *)
(* walks the array itself with for...of: the iterator reads the length of  *)
(* the array at each step, so a callback that changes the array changes    *)
(* what is left of the walk.  A callback returns, throws, or calls off()   *)
(* for the event it is delivered.                                          *)

\* registrations that the model lets be held at once, over all events
MaxListeners == 3

EventNames == {"browser-started", "browser-stopped"}

\* the callbacks: `log` returns, `throw` throws, `once` removes itself and
\* `dropLog` removes `log`
Callbacks == {"log", "throw", "once", "dropLog"}

\* Array.prototype.indexOf(callback), 0 for JavaScript's -1
indexOf(callbacks, callback) ==
    IF \E i \in 1..Len(callbacks) : callbacks[i] = callback
    THEN Min({i \in 1..Len(callbacks) : callbacks[i] = callback})
    ELSE 0

\* callbacks.splice(index, 1)
splice(callbacks, index) ==
    [i \in 1..(Len(callbacks) - 1) |-> IF i < index THEN callbacks[i] ELSE callbacks[i + 1]]

\* ProcessLevelDetector.off on the array of the event
off(callbacks, callback) ==
    IF indexOf(callbacks, callback) # 0
    THEN splice(callbacks, indexOf(callbacks, callback))
    ELSE callbacks

\* the array after the callback has run
Run(callback, callbacks) ==
    CASE callback = "once" -> off(callbacks, "once")
      [] callback = "dropLog" -> off(callbacks, "log")
      [] OTHER -> callbacks

\* ProcessLevelDetector.emit from index i on: the array it leaves and the
\* callbacks it has called, in order
RECURSIVE emit(_, _, _)
emit(callbacks, i, called) ==
    IF i > Len(callbacks) THEN [callbacks |-> callbacks, called |-> called]
    ELSE emit(Run(callbacks[i], callbacks), i + 1, Append(called, callbacks[i]))

Registered(d) == Len(d.listeners["browser-started"]) + Len(d.listeners["browser-stopped"])

On(event, callback) ==
    /\ processDetector # NoDetector
    /\ Registered(processDetector) < MaxListeners
    /\ processDetector' = [processDetector EXCEPT !.listeners[event] = Append(@, callback)]
    /\ lastOp' = [op |-> "on", event |-> event, callback |-> callback]
    /\ emitted' = <<>>
    /\ UNCHANGED <<factory, extensionDetector, lastEvent, nonDetectorVars>>

Off(event, callback) ==
    /\ processDetector # NoDetector
    /\ processDetector' = [processDetector EXCEPT !.listeners[event] = off(@, callback)]
    /\ lastOp' = [op |-> "off", event |-> event, callback |-> callback]
    /\ emitted' = <<>>
    /\ UNCHANGED <<factory, extensionDetector, lastEvent, nonDetectorVars>>

Emit(event) ==
    /\ processDetector # NoDetector
    /\ LET delivery == emit(processDetector.listeners[event], 1, <<>>)
       IN  /\ processDetector' = [processDetector EXCEPT !.listeners[event] = delivery.callbacks]
           /\ lastOp' = [op |-> "emit", event |-> event,
                         before |-> processDetector.listeners[event],
                         called |-> delivery.called]
    /\ emitted' = <<>>
    /\ UNCHANGED <<factory, extensionDetector, lastEvent, nonDetectorVars>>

NextListeners ==
    \/ \E event \in EventNames, callback \in Callbacks : On(event, callback)
    \/ \E event \in EventNames, callback \in Callbacks : Off(event, callback)
    \/ \E event \in EventNames : Emit(event)

SpecListeners == InitProcessDetector /\ [][NextListeners]_vars

\* C32: an emitted event is delivered once to each listener registered for
\* it when it is emitted, in registration order, whatever the listeners do
\* (return, throw, unregister themselves or another listener), and to no
\* listener that is not registered for it.
C32_EachRegisteredListenerCalled ==
    lastOp.op = "emit" => lastOp.called = lastOp.before


----------------------------------------------------------------------------
(* ExtensionDetector (src/unnamed/part_006, 345-837) and DetectorFactory   *)
(* (src/unnamed/part_007, 1-276).  The extension detector awaits nothing   *)
(* that takes time, so each of its methods is one step; its IPC handlers,  *)
(* once registered by start(), answer the extensions whether or not it is  *)
(* running.  connectedExtensions is the sequence of the keys of the Map.   *)
(* The factory constructs its detectors once.                              *)

\* activity reports the extension detector may hold in the model
MaxReports == 1
ActivityBufferMax == 1000
ActivityBufferKeep == 500

ExtensionBrowsers == {"chrome", "firefox"}
Histories == {<<"youtube.com">>}

NewExtensionDetector ==
    [isRunning |-> FALSE, ipcHandlersRegistered |-> FALSE,
     connectedExtensions |-> <<>>, activityBuffer |-> <<>>]

ExtStopped(browser) == [event |-> "browser-stopped", name |-> browser]
ExtStarted(browser) == [event |-> "browser-started", name |-> browser]

\* ExtensionDetector.start
extensionStart(e) ==
    IF e.isRunning THEN e
    ELSE [e EXCEPT !.isRunning = TRUE, !.ipcHandlersRegistered = TRUE]

extensionStopKeepsState(e) ==
    IF ~e.isRunning THEN [detector |-> e, events |-> <<>>]
    ELSE [detector |-> [e EXCEPT !.isRunning = FALSE],
          events |-> [i \in 1..Len(e.connectedExtensions) |->
                         ExtStopped(e.connectedExtensions[i])]]

\* ExtensionDetector.stop: the detector it leaves and the events it emits
extensionStop(e) ==
    IF ~e.isRunning THEN [detector |-> e, events |-> <<>>]
    ELSE [detector |-> [e EXCEPT !.isRunning = FALSE,
                                 !.connectedExtensions = <<>>,
                                 !.activityBuffer = <<>>],
          events |-> [i \in 1..Len(e.connectedExtensions) |->
                         ExtStopped(e.connectedExtensions[i])]]

checkAvailableAlways(e) == TRUE

\* ExtensionDetector.checkAvailable
checkAvailable(e) == Len(e.connectedExtensions) > 0

\* the ipcMain handlers of the extension detector
HandleExtensionConnect(browser) ==
    /\ extensionDetector # NoDetector
    /\ extensionDetector.ipcHandlersRegistered
    /\ extensionDetector' = [extensionDetector EXCEPT !.connectedExtensions =
          IF browser \in SeqRange(@) THEN @ ELSE Append(@, browser)]
    /\ emitted' = <<[event |-> "extension-connected", name |-> browser],
                    ExtStarted(browser)>>
    /\ lastOp' = [op |-> "extensionConnect", browser |-> browser]
    /\ UNCHANGED <<factory, processDetector, lastEvent, nonDetectorVars>>

HandleActivityReport(browser, history) ==
    /\ extensionDetector # NoDetector
    /\ extensionDetector.ipcHandlersRegistered
    /\ Len(extensionDetector.activityBuffer) < MaxReports
    /\ LET pushed == Append(extensionDetector.activityBuffer,
                            [browser |-> browser, history |-> history])
       IN  extensionDetector' = [extensionDetector EXCEPT !.activityBuffer =
              IF Len(pushed) > ActivityBufferMax
              THEN SubSeq(pushed, Len(pushed) - ActivityBufferKeep + 1, Len(pushed))
              ELSE pushed]
    /\ emitted' = <<[event |-> "activity-report", name |-> browser]>>
    /\ lastOp' = [op |-> "activityReport", browser |-> browser]
    /\ UNCHANGED <<factory, processDetector, lastEvent, nonDetectorVars>>

HandleExtensionDisconnect(browser) ==
    /\ extensionDetector # NoDetector
    /\ extensionDetector.ipcHandlersRegistered
    /\ extensionDetector' = [extensionDetector EXCEPT !.connectedExtensions =
          SelectSeq(@, LAMBDA b : b # browser)]
    /\ emitted' = IF browser \in SeqRange(extensionDetector.connectedExtensions)
                  THEN <<ExtStopped(browser),
                         [event |-> "extension-disconnected", name |-> browser]>>
                  ELSE <<>>
    /\ lastOp' = [op |-> "extensionDisconnect", browser |-> browser]
    /\ UNCHANGED <<factory, processDetector, lastEvent, nonDetectorVars>>


Modes == {"auto", "basic", "enhanced"}

\* DetectorFactory.setMode: a mode that is none of the three sets auto
SetMode(mode) ==
    /\ factory' = [factory EXCEPT !.mode = IF mode \in Modes THEN mode ELSE "auto"]
    /\ lastOp' = [op |-> "setMode", mode |-> mode]
    /\ emitted' = <<>>
    /\ UNCHANGED <<processDetector, extensionDetector, lastEvent, nonDetectorVars>>

\* DetectorFactory.createDetector, called when the plugin loads.  The
\* availability check stands for a probe of the native messaging host:
\* it answers, or it throws.
CreateDetector(checkThrows) ==
    /\ processDetector = NoDetector
    /\ extensionDetector = NoDetector
    /\ processDetector' = NewProcessDetector
    /\ extensionDetector' = NewExtensionDetector
    /\ LET hasExtension == ~checkThrows /\ checkAvailable(NewExtensionDetector)
           chosen == IF factory.mode = "basic" THEN "basic"
                     ELSE IF factory.mode = "enhanced" THEN "enhanced"
                     ELSE IF hasExtension THEN "enhanced"
                     ELSE "basic"
       IN  /\ factory' = [factory EXCEPT !.activeDetector = chosen]
           /\ lastOp' = [op |-> "createDetector", checkThrows |-> checkThrows,
                         result |-> chosen]
    /\ emitted' = <<>>
    /\ UNCHANGED <<lastEvent, nonDetectorVars>>

\* the plugin starts the detector the factory gave it
StartActive ==
    /\ factory.activeDetector # Null
    /\ IF factory.activeDetector = "basic"
       THEN /\ MayStart(processDetector)
            /\ processDetector' = processStart(processDetector)
            /\ UNCHANGED extensionDetector
       ELSE /\ extensionDetector' = extensionStart(extensionDetector)
            /\ UNCHANGED processDetector
    /\ lastOp' = [op |-> "start", detector |-> factory.activeDetector]
    /\ emitted' = <<>>
    /\ UNCHANGED <<factory, lastEvent, nonDetectorVars>>

\* DetectorFactory.switchToEnhanced
SwitchToEnhanced(checkThrows) ==
    LET extension == IF extensionDetector = NoDetector
                     THEN NewExtensionDetector ELSE extensionDetector
        available == checkAvailable(extension)
        stopped == IF factory.activeDetector = "basic"
                   THEN processStop(processDetector)
                   ELSE [detector |-> processDetector, events |-> <<>>]
    IN  /\ IF ~checkThrows /\ available
           THEN /\ processDetector' = stopped.detector
                /\ emitted' = stopped.events
                /\ lastEvent' = LastEventAfter(stopped.events)
                /\ factory' = [factory EXCEPT !.activeDetector = "enhanced"]
                /\ extensionDetector' = extensionStart(extension)
           ELSE /\ extensionDetector' = extension
                /\ emitted' = <<>>
                /\ UNCHANGED <<factory, processDetector, lastEvent>>
        /\ lastOp' = [op |-> "switchToEnhanced",
                      result |-> IF checkThrows THEN "throws"
                                 ELSE IF available THEN "true" ELSE "false",
                      before |-> [activeDetector |-> factory.activeDetector,
                                  processDetector |-> processDetector,
                                  extensionDetector |-> extensionDetector]]
        /\ UNCHANGED nonDetectorVars

\* DetectorFactory.switchToBasic, to the await in the start of the process
\* detector
SwitchToBasic ==
    LET process == IF processDetector = NoDetector
                   THEN NewProcessDetector ELSE processDetector
        stopped == IF factory.activeDetector = "enhanced"
                   THEN extensionStop(extensionDetector)
                   ELSE [detector |-> extensionDetector, events |-> <<>>]
    IN  /\ MayStart(process)
        /\ extensionDetector' = stopped.detector
        /\ emitted' = stopped.events
        /\ factory' = [factory EXCEPT !.activeDetector = "basic"]
        /\ processDetector' = processStart(process)
        /\ lastOp' = [op |-> "switchToBasic", result |-> "true",
                      before |-> [activeDetector |-> factory.activeDetector,
                                  processDetector |-> processDetector,
                                  extensionDetector |-> extensionDetector]]
        /\ UNCHANGED <<lastEvent, nonDetectorVars>>

\* getCapabilities of the two detectors and of the hybrid detector
Capabilities ==
    {"browserDetection", "totalTimeTracking", "perSiteTracking",
     "categoryClassification", "idleDetection", "realTimeBlocking",
     "extensionRequired"}
basicCaps == [c \in Capabilities |-> c \in {"browserDetection", "totalTimeTracking"}]
enhancedCaps == [c \in Capabilities |-> TRUE]
\* { ...basicCaps, ...enhancedCaps, hybridMode: true }
hybridCapabilities ==
    LET enhanced == IF extensionDetector = NoDetector THEN <<>> ELSE enhancedCaps
    IN  [c \in Capabilities \cup {"hybridMode"} |->
            IF c = "hybridMode" THEN TRUE
            ELSE IF c \in DOMAIN enhanced THEN enhanced[c] ELSE basicCaps[c]]

\* ProcessLevelDetector.getUsageData
basicUsageData ==
    [mode |-> "basic",
     currentlyActive |-> Len(processDetector.activeBrowsers) > 0,
     activeCount |-> Len(processDetector.activeBrowsers),
     detailAvailable |-> FALSE]

RECURSIVE Flatten(_)
Flatten(reports) ==
    IF reports = <<>> THEN <<>> ELSE Head(reports).history \o Flatten(Tail(reports))

\* ExtensionDetector.getUsageData
enhancedUsageData ==
    [mode |-> "enhanced",
     detailAvailable |-> TRUE,
     totalSites |-> Cardinality(SeqRange(Flatten(extensionDetector.activityBuffer))),
     extensionsConnected |-> extensionDetector.connectedExtensions]

\* getUsageData of the hybrid detector
hybridUsageData ==
    IF extensionDetector # NoDetector /\ enhancedUsageData.detailAvailable
    THEN [mode |-> "hybrid",
          currentlyActive |-> basicUsageData.currentlyActive,
          activeCount |-> basicUsageData.activeCount,
          detailAvailable |-> enhancedUsageData.detailAvailable,
          totalSites |-> enhancedUsageData.totalSites,
          extensionsConnected |-> enhancedUsageData.extensionsConnected]
    ELSE basicUsageData

\* createHybridDetector().getUsageData(childId) and .getCapabilities(); with
\* no process detector both throw
HybridGetUsageData ==
    /\ lastOp' = [op |-> "getUsageData", detector |-> "hybrid",
                  result |-> IF processDetector = NoDetector THEN TypeError
                             ELSE hybridUsageData]
    /\ emitted' = <<>>
    /\ UNCHANGED <<detectorVars, nonDetectorVars>>

HybridGetCapabilities ==
    /\ lastOp' = [op |-> "getCapabilities", detector |-> "hybrid",
                  result |-> IF processDetector = NoDetector THEN TypeError
                             ELSE hybridCapabilities]
    /\ emitted' = <<>>
    /\ UNCHANGED <<detectorVars, nonDetectorVars>>

FactoryAnswers == {Answer(<<>>), Answer(<<ChromeProcess, FirefoxProcess>>)}
SetModes == Modes \cup {"hybrid"}

InitFactory ==
    /\ stateAgents = [a \in Agents |-> "c1"]
    /\ stateChildren = [c \in Children |-> NoChild]
    /\ InitControllers

NextFactory ==
    \/ \E mode \in SetModes : SetMode(mode)
    \/ \E checkThrows \in BOOLEAN : CreateDetector(checkThrows)
    \/ StartActive
    \/ \E checkThrows \in BOOLEAN : SwitchToEnhanced(checkThrows)
    \/ SwitchToBasic
    \/ \E answer \in FactoryAnswers : ProcessStartContinues(answer)
    \/ ScanTick
    \/ \E answer \in FactoryAnswers : ScanReturns(answer)
    \/ \E browser \in ExtensionBrowsers : HandleExtensionConnect(browser)
    \/ \E history \in Histories : HandleActivityReport("chrome", history)
    \/ \E browser \in ExtensionBrowsers : HandleExtensionDisconnect(browser)
    \/ HybridGetUsageData
    \/ HybridGetCapabilities

SpecFactory == InitFactory /\ [][NextFactory]_vars


----------------------------------------------------------------------------
(* Claims on the factory *)

CreateStep == lastOp'.op = "createDetector" /\ processDetector = NoDetector
              /\ processDetector' # NoDetector

\* C26: createDetector in auto mode constructs an extension detector with
\* no connected extension, returns the process detector and makes it the
\* active detector, whether the availability check answers or throws.
C26_AutoFallsBackToBasic ==
    [][(CreateStep /\ factory.mode = "auto")
       => /\ extensionDetector'.connectedExtensions = <<>>
          /\ lastOp'.result = "basic"
          /\ factory'.activeDetector = "basic"]_vars

\* createDetector in auto mode has chosen basic after the check threw
C26_Witness ==
    /\ lastOp.op = "createDetector"
    /\ lastOp.checkThrows
    /\ factory.mode = "auto"
    /\ factory.activeDetector = "basic"
    /\ processDetector = NewProcessDetector
    /\ extensionDetector = NewExtensionDetector

\* C27: in whatever mode, createDetector and switchToEnhanced leave the
\* extension detector active only if an extension is connected to it.
C27_EnhancedOnlyWhenConnected ==
    [][(CreateStep \/ lastOp'.op = "switchToEnhanced")
       => ( factory'.activeDetector = "enhanced"
            => checkAvailable(extensionDetector') )]_vars

Before ==
    [activeDetector |-> factory.activeDetector,
     processDetector |-> processDetector,
     extensionDetector |-> extensionDetector]
SwitchStep(op) == lastOp'.op = op /\ lastOp'.before = Before

\* a detector that is running is the active one
OnlyActiveRuns ==
    /\ ( processDetector # NoDetector /\ processDetector.isRunning )
       => factory.activeDetector = "basic"
    /\ ( extensionDetector # NoDetector /\ extensionDetector.isRunning )
       => factory.activeDetector = "enhanced"

EnhancedDetail ==
    /\ extensionDetector # NoDetector
    /\ \/ extensionDetector.connectedExtensions # <<>>
       \/ extensionDetector.activityBuffer # <<>>

\* C29: the capabilities of the hybrid detector are those of the process
\* detector together with those of the extension detector; its getUsageData
\* returns the detail of the extension detector when an extension is
\* connected or has reported, and the summary of the process detector
\* otherwise.
C29_HybridPrefersAvailableDetail ==
    /\ ( lastOp.op = "getCapabilities" /\ lastOp.result # TypeError
         /\ extensionDetector # NoDetector )
       => \A c \in Capabilities : lastOp.result[c] = (basicCaps[c] \/ enhancedCaps[c])
    /\ ( lastOp.op = "getUsageData" /\ lastOp.result # TypeError )
       => IF EnhancedDetail
          THEN /\ lastOp.result.detailAvailable
               /\ lastOp.result.totalSites = enhancedUsageData.totalSites
          ELSE lastOp.result = basicUsageData


----------------------------------------------------------------------------
(* The dispatch of the enforcer's warnings.  The plugin's show-warning     *)
(* listener (src/unnamed/part_001, 680-688) runs inside the enforcer's     *)
(* emit and calls AgentBrowserManager.triggerWarning, which issues the     *)
(* show-warning action before it first awaits: the actions of a step are   *)
(* those of the show-warning events the step emitted.                      *)

HighBelowMinutes == 5

\* AgentBrowserManager.triggerWarning up to its await: the action it issues
triggerWarning(agentId, warningData) ==
    [type |-> "triggerAction", agentId |-> agentId, actionId |-> "show-warning",
     arguments |->
        [remaining |-> warningData.remaining,
         type |-> warningData.type,
         urgency |-> IF warningData.urgency # Undefined THEN warningData.urgency
                     ELSE IF warningData.remaining.num
                                <= HighBelowMinutes * warningData.remaining.den
                          THEN "high" ELSE "normal"]]

\* the plugin's show-warning listener: it takes agentId, childId, remaining
\* and type from the event and passes remaining, type and a message on
onShowWarning(data) ==
    triggerWarning(data.agentId,
                   [remaining |-> data.remaining, type |-> data.activityType,
                    urgency |-> Undefined])

\* the show-warning actions issued for the events of a step
WarningActions(events) ==
    LET warnings == SelectSeq(events, LAMBDA e : e.type = "show-warning")
    IN  [i \in 1..Len(warnings) |-> onShowWarning(warnings[i])]

\* the agents a show-warning action of the step is sent to
Warned(events) ==
    {WarningActions(events)[i].agentId : i \in 1..Len(WarningActions(events))}

\* C37: a threshold warning for a child is dispatched to every agent the
\* child is active on: when the check of one agent has warned and the check
\* of another agent of the same child follows on the same allowance, that
\* agent is sent the warning too, by the one step or the other.
C37_WarningReachesEveryAgent ==
    [][( /\ lastOp.op = "checkQuota"
         /\ Warned(emitted) # {}
         /\ lastOp'.op = "checkQuota"
         /\ lastOp'.agentId # lastOp.agentId
         /\ lastOp'.childId = lastOp.childId
         /\ lastOp'.allowance = lastOp.allowance )
       => lastOp'.agentId \in Warned(emitted) \cup Warned(emitted')]_vars

\* C38: the show-warning action sent to the agent for a warning event
\* carries the urgency the enforcer decided for it.
C38_ActionCarriesDecidedUrgency ==
    \A i \in 1..Len(emitted) :
       emitted[i].type = "show-warning"
       => onShowWarning(emitted[i]).arguments.urgency = emitted[i].urgency


----------------------------------------------------------------------------
(* BrowserQuotaManager listening to the process detector.  The manager's   *)
(* handlers are the detector's listeners for browser-started and           *)
(* browser-stopped (src/unnamed/part_005, 101-113): emit calls them before *)
(* the scan goes on, so a scan and the handling of its events are one      *)
(* step.  The detector is running and the manager, in run 1, has a         *)
(* session.  An event carries the name the detector identified the         *)
(* process by when it started.                                             *)

\* a second process of the browser of ChromeProcess
ChromeChild == [pid |-> 3, name |-> "chrome.exe", path |-> "/usr/bin/chrome"]

WatchedProcesses == {ChromeProcess, FirefoxProcess, ChromeChild}
WatchedLists ==
    { <<>>, <<ChromeProcess>>, <<ChromeChild>>, <<FirefoxProcess>>,
      <<ChromeProcess, ChromeChild>>, <<ChromeProcess, FirefoxProcess>>,
      <<ChromeProcess, FirefoxProcess, ChromeChild>> }

\* info.name of the entry of activeBrowsers for the PID
BrowserOfPid(pid) ==
    identifyBrowser(CHOOSE proc \in WatchedProcesses : proc.pid = pid)

\* the manager's record after its handlers have run for the events, in order
RECURSIVE Handled(_, _)
Handled(u, events) ==
    IF events = <<>> THEN u
    ELSE LET e == Head(events)
         IN  Handled(CASE e.event = "browser-started"
                            -> handleBrowserStarted(u, BrowserOfPid(e.pid))
                       [] e.event = "browser-stopped"
                            -> handleBrowserStopped(u, BrowserOfPid(e.pid))
                       [] OTHER -> u,
                     Tail(events))

\* a scan of the running detector, with the manager's handlers called by emit
WatchedScan(processes) ==
    /\ processDetector # NoDetector
    /\ processDetector.isRunning
    /\ LET scanned == scanBrowsers(processDetector.activeBrowsers, processes)
       IN  /\ processDetector' = [processDetector EXCEPT
                                     !.activeBrowsers = scanned.activeBrowsers]
           /\ emitted' = scanned.events
           /\ lastEvent' = LastEventAfter(scanned.events)
           /\ usage' = [usage EXCEPT ![1] = Handled(@, scanned.events)]
    /\ lastOp' = [op |-> "scan", answer |-> Answer(processes),
                  before |-> processDetector.activeBrowsers]
    /\ UNCHANGED <<now, stateAgents, stateChildren, trackerVars, enforcerVars, managerVars,
                   usageEvents, stateChange, classifierVars, factory, extensionDetector>>

\* the detector was started with no browser up, the manager listens
InitWatched ==
    /\ stateAgents = [a \in Agents |-> "c1"]
    /\ stateChildren = [c \in Children |-> NoChild]
    /\ InitParentSide
    /\ InitClassifier
    /\ factory = [mode |-> "basic", activeDetector |-> "basic"]
    /\ processDetector = [NewProcessDetector EXCEPT !.isRunning = TRUE,
                                                    !.scanInterval = TRUE,
                                                    !.timers = 1]
    /\ extensionDetector = NoDetector
    /\ lastEvent = [pid \in Pids |-> "none"]

NextWatched ==
    \/ \E processes \in WatchedLists : WatchedScan(processes)
    \/ UpdateUsageTick
    \/ \E d \in QuotaManagerSteps : AdvanceQuotaManager(d)

SpecWatched == InitWatched /\ [][NextWatched]_vars

\* C39: the browserActive flag of the session's child is true exactly while
\* the detector has an active browser (and the child has no usage record
\* only while the detector has had none).
C39_ActiveWhileAnyBrowserRuns ==
    IF usage[1] = NoUsage THEN processDetector.activeBrowsers = <<>>
    ELSE usage[1].browserActive <=> processDetector.activeBrowsers # <<>>

============================================================================
